---- MODULE Spec2Model ----
(***************************************************************************)
(* Model of the tic-tac-toe match server: the board evaluator              *)
(* (Game.checkWinner), the outcome scripter (BotPlayer.determineOutcome),  *)
(* the automated opponent controller (BotPlayer.getNextMove) and the match *)
(* state machine (Game, makeBotMove, handleGameEnd, handleDraw and the     *)
(* socket handlers).                                                       *)
(***************************************************************************)
EXTENDS Integers, Sequences, FiniteSets, TLC

VARIABLES
    evalBoard,      \* a 9-cell board handed to Game.checkWinner
    evalResult,     \* what Game.checkWinner returned for evalBoard
    playerHistory,  \* botLogic.js playerHistory: address -> cursors
    betHistory,     \* botLogic.js betHistory: address -> last bet record
    decided,        \* history: number of scripted decisions per address and bet
    totalDecided,   \* history: number of scripted decisions in all
    lastDecision,   \* history: the last call of determineOutcome and its return
    connected,      \* the socket ids of the connected clients
    players,        \* server.js players: socket id -> joinGame record
    games,          \* server.js games, in insertion order (Object.values)
    activeBots,     \* server.js activeBots: game id -> BotPlayer session
    waitingQueue,   \* server.js waitingQueue: socket ids, in order
    timers,         \* the pending setTimeout callbacks but the turn timers
    ended,          \* history: the gameEnd announcements, [gameId, winnerId]
    roundLog,       \* history: game id -> the number of the round being
                    \* played and who placed its first and its last mark
    lastEvent,      \* history: the last handler that changed the state
    notified,       \* history: socket id -> the last of 'paymentVerified' and
                    \* 'matchFound' emitted to the client
    payouts,        \* history: the calls of processPayout, in order
    tierLog,        \* history: address and bet -> what the first calls of
                    \* determineOutcome for them saw and returned
    botBoard,       \* a 9-cell board handed to BotPlayer.getNextMove
    botSession,     \* the BotPlayer session getNextMove is called on
    botReturn,      \* what BotPlayer.getNextMove returned for botBoard
    spawnRandom,    \* the value Math.random() returns when a bot spawn timer is set
    spawnDelay      \* the path that set the bot spawn timer and its delay

evalVars == <<evalBoard, evalResult>>
outcomeVars == <<playerHistory, betHistory, decided, totalDecided, lastDecision>>
matchVars ==
    <<connected, players, games, activeBots, waitingQueue, timers, ended, roundLog,
      lastEvent, notified, payouts>>
rematchVars == <<tierLog>>
\* the variables that are no part of the server's state in a match
moveVars == <<botBoard, botSession, botReturn>>
delayVars == <<spawnRandom, spawnDelay>>
asideVars == <<evalVars, rematchVars, moveVars, delayVars>>
vars == <<evalVars, outcomeVars, matchVars, rematchVars, moveVars, delayVars>>

(***************************************************************************)
(* Boards                                                                  *)
(***************************************************************************)
Null == "null"
Marks == {"X", "O"}
Cells == 0..8
Boards == [Cells -> Marks \cup {Null}]
EmptyBoard == [c \in Cells |-> Null]

\* the line table with its last diagonal mistyped
LinesBadDiagonal ==
    << <<0, 1, 2>>, <<3, 4, 5>>, <<6, 7, 8>>,
       <<0, 3, 6>>, <<1, 4, 7>>, <<2, 5, 8>>,
       <<0, 4, 8>>, <<2, 4, 7>> >>

\* const lines = [...] of Game.checkWinner, in the order the loop visits them
Lines ==
    << <<0, 1, 2>>, <<3, 4, 5>>, <<6, 7, 8>>,
       <<0, 3, 6>>, <<1, 4, 7>>, <<2, 5, 8>>,
       <<0, 4, 8>>, <<2, 4, 6>> >>

\* the test of the for loop: board[a] && board[a] === board[b] && board[a] === board[c]
LineComplete(board, line) ==
    /\ board[line[1]] # Null
    /\ board[line[1]] = board[line[2]]
    /\ board[line[1]] = board[line[3]]

\* Game.checkWinner: the first complete line wins, else a full board is a draw
checkWinner(board) ==
    LET hit == {i \in 1..Len(Lines) : LineComplete(board, Lines[i])}
    IN  IF hit # {}
        THEN LET first == CHOOSE i \in hit : \A j \in hit : i <= j
             IN  [winner |-> board[Lines[first][1]], winLine |-> Lines[first]]
        ELSE IF \A c \in Cells : board[c] # Null
             THEN [winner |-> "draw", winLine |-> <<>>]
             ELSE [winner |-> Null, winLine |-> <<>>]

NoResult == [winner |-> "unset", winLine |-> <<>>]

(***************************************************************************)
(* Outcome scripter: BotPlayer.determineOutcome (botLogic.js)              *)
(***************************************************************************)
PATTERN_50_SATS == <<"W", "L", "W", "W", "L", "L", "L", "W", "L">>
PATTERN_300_PLUS == <<"L", "W", "L", "W", "L", "L", "W", "L", "W">>

\* opponent addresses the bot sessions are created for; NoAddress is a
\* missing opponentAddress (null / undefined / empty)
Addresses == {"a1", "a2"}
NoAddress == "none"
\* bet amounts a BotPlayer is constructed with: allowed bets of the two
\* buckets, and an amount of neither bucket (force-spawn takes any amount)
OutcomeBets == {50, 100, 300, 500}
\* the number of scripted decisions explored in all, and for every address
\* but the first (whose decisions interleave with those of the first)
MaxDecisions == 11
MaxOtherDecisions == 2
MainAddress == "a1"

NewPlayerHistory == [patternIndex50 |-> 0, patternIndex300 |-> 0, gamesPlayed |-> 0]
NewBetInfo == [lastBet |-> 0, lastResult |-> Null, gameCount |-> 0]

\* lines 56-62: playerHistory.set(address, {...}) when the address is new
InitHistory(ph, address) ==
    IF address \in DOMAIN ph THEN ph ELSE ph @@ (address :> NewPlayerHistory)

\* lines 85-92: betHistory.set(address, {...}) when the address is new
InitBetInfo(bh, address) ==
    IF address \in DOMAIN bh THEN bh ELSE bh @@ (address :> NewBetInfo)

\* the cursor advanced before the token is read
PatternAtAfterIncrement(pattern, index) == pattern[((index + 1) % Len(pattern)) + 1]

\* pattern[index % pattern.length]
PatternAt(pattern, index) == pattern[(index % Len(pattern)) + 1]

\* lines 120-121 with the cursor advanced by two
AdvancePattern300Twice(history) ==
    [history EXCEPT !.patternIndex300 = @ + 2, !.gamesPlayed = @ + 1]

\* lines 120-121: history.patternIndex300++; history.gamesPlayed++
AdvancePattern300(history) ==
    [history EXCEPT !.patternIndex300 = @ + 1, !.gamesPlayed = @ + 1]

\* the revenge test without the count of games
IsRevengeAnyCount(betInfo, betAmount) ==
    /\ betInfo.lastBet = betAmount
    /\ betInfo.lastResult = "L"

\* lines 98-100: the revenge test on the bet record
IsRevenge(betInfo, betAmount) ==
    /\ betInfo.lastBet = betAmount
    /\ betInfo.lastResult = "L"
    /\ betInfo.gameCount = 1

\* BotPlayer.determineOutcome; rnd is the draw Math.random() > 0.5.
\* Returns the boolean, the maps as the call leaves them, and the fields of
\* the bot_outcome_determined log entry (pattern, outcome).
determineOutcome(ph, bh, betAmount, opponentAddress, rnd) ==
    IF opponentAddress = NoAddress
    THEN [shouldWin |-> rnd, playerHistory |-> ph, betHistory |-> bh,
          pattern |-> "random", outcome |-> Null]
    ELSE
      LET ph1 == InitHistory(ph, opponentAddress)
          history == ph1[opponentAddress]
      IN  IF betAmount = 50
          THEN LET outcome == PatternAt(PATTERN_50_SATS, history.patternIndex50)
               IN  [shouldWin |-> (outcome = "W"),
                    playerHistory |->
                        [ph1 EXCEPT ![opponentAddress] =
                            [history EXCEPT !.patternIndex50 = @ + 1,
                                            !.gamesPlayed = @ + 1]],
                    betHistory |-> bh,
                    pattern |-> "50_sats", outcome |-> outcome]
          ELSE IF betAmount >= 300
          THEN LET bh1 == InitBetInfo(bh, opponentAddress)
                   betInfo == bh1[opponentAddress]
               IN  IF IsRevenge(betInfo, betAmount)
                   THEN [shouldWin |-> FALSE,
                         playerHistory |-> ph1,
                         betHistory |->
                             [bh1 EXCEPT ![opponentAddress] =
                                 [betInfo EXCEPT !.lastResult = "W",
                                                 !.gameCount = @ + 1]],
                         pattern |-> "300_plus_revenge", outcome |-> "player_wins"]
                   ELSE LET outcome ==
                                PatternAt(PATTERN_300_PLUS, history.patternIndex300)
                        IN  [shouldWin |-> (outcome = "W"),
                             playerHistory |->
                                 [ph1 EXCEPT ![opponentAddress] =
                                     AdvancePattern300(history)],
                             betHistory |->
                                 [bh1 EXCEPT ![opponentAddress] =
                                     [betInfo EXCEPT !.lastBet = betAmount,
                                                     !.lastResult = outcome,
                                                     !.gameCount = @ + 1]],
                             pattern |-> "300_plus", outcome |-> outcome]
          ELSE [shouldWin |-> rnd, playerHistory |-> ph1, betHistory |-> bh,
                pattern |-> "random", outcome |-> Null]

(***************************************************************************)
(* Automated opponent controller: BotPlayer (botLogic.js)                  *)
(***************************************************************************)
NoMove == -1

Available(board) == {c \in Cells : board[c] = Null}
Filled(board) == Cardinality({c \in Cells : board[c] # Null})
MinOf(S) == CHOOSE x \in S : \A y \in S : x <= y

\* const lines = [...] of BotPlayer.evaluateBoard and makeSillyMistake
BotLines ==
    << <<0, 1, 2>>, <<3, 4, 5>>, <<6, 7, 8>>,
       <<0, 3, 6>>, <<1, 4, 7>>, <<2, 5, 8>>,
       <<0, 4, 8>>, <<2, 4, 6>> >>

\* values.filter(v => v === mark).length === 2 && values.includes(null)
TwoAndGap(board, line, mark) ==
    /\ Cardinality({i \in 1..3 : board[line[i]] = mark}) = 2
    /\ \E i \in 1..3 : board[line[i]] = Null

\* line[values.indexOf(null)]
GapOf(board, line) == line[MinOf({i \in 1..3 : board[line[i]] = Null})]

\* the first line of the table with two marks of `mark` and a gap, or 0
FirstTwoAndGap(board, mark) ==
    LET hit == {i \in 1..Len(BotLines) : TwoAndGap(board, BotLines[i], mark)}
    IN  IF hit = {} THEN 0 ELSE MinOf(hit)

\* BotPlayer.evaluateBoard: complete an O line, else block an X line
evaluateBoard(board) ==
    LET w == FirstTwoAndGap(board, "O")
        b == FirstTwoAndGap(board, "X")
    IN  IF w # 0 THEN GapOf(board, BotLines[w])
        ELSE IF b # 0 THEN GapOf(board, BotLines[b])
        ELSE NoMove

\* BotPlayer.getStrategicMove: the moves it can return (corners and edges are
\* drawn at random)
getStrategicMove(board) ==
    LET critical == evaluateBoard(board)
        corners == {0, 2, 6, 8} \cap Available(board)
        edges == {1, 3, 5, 7} \cap Available(board)
    IN  IF critical # NoMove THEN {critical}
        ELSE IF board[4] = Null THEN {4}
        ELSE IF corners # {} THEN corners
        ELSE IF edges # {} THEN edges
        ELSE {NoMove}

\* x || available[Math.floor(Math.random() * available.length)]: a move of 0
\* or null is falsy and replaced by a random empty cell
OrRandom(moves, board) ==
    (moves \ {0, NoMove}) \cup
        (IF moves \cap {0, NoMove} # {} THEN Available(board) ELSE {})

\* winningMove || available[0]
OrFirst(moves, board) ==
    (moves \ {0, NoMove}) \cup
        (IF moves \cap {0, NoMove} # {} THEN {MinOf(Available(board))} ELSE {})

\* BotPlayer.makeNoobMove: the moves it can return
makeNoobMove(board) ==
    LET winMove == evaluateBoard(board)
        otherMoves == Available(board) \ {winMove}
    IN  (IF winMove # NoMove THEN otherMoves ELSE {})
            \cup Available(board)
            \cup OrRandom(getStrategicMove(board), board)

\* a pick among all nine cells
makeSillyMistakeAnyCell(board) == Cells

\* BotPlayer.makeSillyMistake: at the first line where X has two and a gap and
\* another empty cell exists, any cell but the blocking one; else any cell
makeSillyMistake(board) ==
    LET hit == {i \in 1..Len(BotLines) :
                   /\ TwoAndGap(board, BotLines[i], "X")
                   /\ Available(board) \ {GapOf(board, BotLines[i])} # {}}
    IN  IF hit # {}
        THEN Available(board) \ {GapOf(board, BotLines[MinOf(hit)])}
        ELSE Available(board)

\* the largest value drawCount is followed to: it is only compared with
\* maxDrawsBeforeEnd (at most 5), so larger values behave alike
MaxDrawCount == 5

\* BotPlayer.checkPotentialDraw: counts the call when 5 cells or more are filled
checkPotentialDraw(bot, board) ==
    IF Filled(board) >= 5
    THEN [bot EXCEPT !.drawCount = IF @ < MaxDrawCount THEN @ + 1 ELSE @]
    ELSE bot

\* BotPlayer.getNextMove: the set of [move, bot] it can return, bot being the
\* session after the call
getNextMove(board, bot) ==
    IF Available(board) = {} THEN {[move |-> NoMove, bot |-> bot]}
    ELSE
      LET bot1 == checkPotentialDraw(bot, board)
          isDraw == Filled(board) >= 5
          moves ==
            IF isDraw /\ bot1.drawCount >= bot1.maxDrawsBeforeEnd
            THEN IF bot1.shouldWin
                 THEN OrFirst(getStrategicMove(board), board)
                 ELSE makeSillyMistake(board)
            ELSE IF bot1.shouldWin
                 THEN OrRandom(getStrategicMove(board), board) \cup Available(board)
                 ELSE OrRandom(getStrategicMove(board), board) \cup makeNoobMove(board)
      IN  {[move |-> m, bot |-> bot1] : m \in moves}

\* constructor: the thresholds maxDrawsBeforeEnd can be drawn from, 3 or 4
\* for a session that must win and 2 to 5 for one that must lose; the lowest
\* MaxThresholdSpread + 1 values of each range are followed
MaxThresholdSpread == 0
DrawThresholds(shouldWin) ==
    IF shouldWin THEN {m \in 3..4 : m <= 3 + MaxThresholdSpread}
    ELSE {m \in 2..5 : m <= 2 + MaxThresholdSpread}

NoDecision ==
    [address |-> NoAddress, betAmount |-> 0, pattern |-> "none",
     outcome |-> Null, shouldWin |-> FALSE]

\* decisions taken from a script (not the revenge override, not a coin flip)
Scripted(pattern) == pattern \in {"50_sats", "300_plus"}

\* new BotPlayer(gameId, betAmount, opponentAddress): the constructor's call
\* of determineOutcome
DecidedFor(address) ==
    decided[<<address, 50>>] + decided[<<address, 100>>]
        + decided[<<address, 300>>] + decided[<<address, 500>>]

Decide(address, betAmount) ==
    /\ totalDecided < MaxDecisions
    /\ address \in Addresses \ {MainAddress} => DecidedFor(address) < MaxOtherDecisions
    /\ \E rnd \in BOOLEAN :
         LET r == determineOutcome(playerHistory, betHistory, betAmount, address, rnd)
         IN  /\ playerHistory' = r.playerHistory
             /\ betHistory' = r.betHistory
             /\ decided' = IF Scripted(r.pattern)
                           THEN [decided EXCEPT ![<<address, betAmount>>] = @ + 1]
                           ELSE decided
             /\ totalDecided' = IF Scripted(r.pattern)
                                THEN totalDecided + 1 ELSE totalDecided
             /\ lastDecision' = [address |-> address, betAmount |-> betAmount,
                                 pattern |-> r.pattern, outcome |-> r.outcome,
                                 shouldWin |-> r.shouldWin]

InitOutcomeVars ==
    /\ playerHistory = <<>>
    /\ betHistory = <<>>
    /\ decided = [k \in Addresses \X OutcomeBets |-> 0]
    /\ totalDecided = 0
    /\ lastDecision = NoDecision

InitEvalVars ==
    /\ evalBoard = EmptyBoard
    /\ evalResult = NoResult

\* bets of the buckets the bet record is kept for (betAmount >= 300)
HighBets == {betAmount \in OutcomeBets : betAmount >= 300}
\* the number of calls per address and bet whose view and return are logged
MaxLogged == 5
NoTierLog == [verdicts |-> <<>>, overrides |-> 0]

InitRematchVars == tierLog = [k \in Addresses \X HighBets |-> NoTierLog]

\* a session as the constructor leaves it, and getNextMove not yet called
NoSession == [shouldWin |-> FALSE, drawCount |-> 0, maxDrawsBeforeEnd |-> 2]
NoReturn == [called |-> FALSE, move |-> NoMove]

InitMoveVars ==
    /\ botBoard = EmptyBoard
    /\ botSession = NoSession
    /\ botReturn = NoReturn

\* no bot spawn timer set
NoDelay == [path |-> "none", delay |-> <<>>]

InitDelayVars ==
    /\ spawnRandom = <<>>
    /\ spawnDelay = NoDelay

(***************************************************************************)
(* Specification of the board evaluator over every 9-cell board            *)
(***************************************************************************)
Event(kind, gameId) == [kind |-> kind, gameId |-> gameId]
NoEvent == Event("none", 0)

\* the server before any client connected
InitNoMatch ==
    /\ connected = {}
    /\ players = <<>>
    /\ games = <<>>
    /\ activeBots = <<>>
    /\ waitingQueue = <<>>
    /\ timers = {}
    /\ ended = {}
    /\ roundLog = <<>>
    /\ lastEvent = NoEvent
    /\ notified = <<>>
    /\ payouts = <<>>

Evaluate ==
    /\ evalResult = NoResult
    /\ evalResult' = checkWinner(evalBoard)
    /\ UNCHANGED evalBoard

InitEval ==
    /\ evalBoard \in Boards
    /\ evalResult = NoResult
    /\ InitOutcomeVars
    /\ InitRematchVars
    /\ InitMoveVars
    /\ InitDelayVars
    /\ InitNoMatch

NextEval ==
    Evaluate /\ UNCHANGED <<outcomeVars, matchVars, rematchVars, moveVars, delayVars>>

SpecEval == InitEval /\ [][NextEval]_vars

(***************************************************************************)
(* Specification of the outcome scripter: any sequence of BotPlayer        *)
(* constructions for any addresses and bets                                *)
(***************************************************************************)
InitOutcome ==
    /\ InitEvalVars /\ InitOutcomeVars /\ InitRematchVars /\ InitMoveVars
    /\ InitDelayVars /\ InitNoMatch

NextOutcome ==
    /\ \E address \in Addresses \cup {NoAddress}, betAmount \in OutcomeBets :
         Decide(address, betAmount)
    /\ UNCHANGED <<evalVars, matchVars, rematchVars, moveVars, delayVars>>

SpecOutcome == InitOutcome /\ [][NextOutcome]_vars

(***************************************************************************)
(* Specification of the move picker: BotPlayer.getNextMove called once on  *)
(* any 9-cell board for any session                                        *)
(***************************************************************************)
Sessions ==
    UNION {[shouldWin : {shouldWin}, drawCount : 0..MaxDrawCount,
            maxDrawsBeforeEnd : DrawThresholds(shouldWin)] :
             shouldWin \in BOOLEAN}

InitMove ==
    /\ botBoard \in Boards
    /\ botSession \in Sessions
    /\ botReturn = NoReturn
    /\ InitEvalVars
    /\ InitOutcomeVars
    /\ InitRematchVars
    /\ InitDelayVars
    /\ InitNoMatch

GetNextMove ==
    /\ ~botReturn.called
    /\ \E r \in getNextMove(botBoard, botSession) :
         /\ botReturn' = [called |-> TRUE, move |-> r.move]
         /\ botSession' = r.bot
    /\ UNCHANGED botBoard

NextMove ==
    GetNextMove /\ UNCHANGED <<evalVars, outcomeVars, matchVars, rematchVars, delayVars>>

SpecMove == InitMove /\ [][NextMove]_vars

(***************************************************************************)
(* Specification of the bot spawn delay: one draw of Math.random() and the *)
(* delay either path computes from it. A number is the sequence of its     *)
(* bits, the lowest first and the highest a 1, counting units of 2^-53     *)
(* where it has a fraction; the operations of doubles are the exact ones   *)
(* rounded to 53 significant bits, ties to the even significand            *)
(***************************************************************************)
Precision == 53

RECURSIVE NatBits(_)
NatBits(n) == IF n = 0 THEN <<>> ELSE <<n % 2>> \o NatBits(n \div 2)

RECURSIVE BitsNat(_)
BitsNat(a) == IF a = <<>> THEN 0 ELSE Head(a) + 2 * BitsNat(Tail(a))

\* without the zeros above the highest 1
RECURSIVE Trim(_)
Trim(a) ==
    IF a = <<>> THEN <<>>
    ELSE IF a[Len(a)] = 1 THEN a
    ELSE Trim(SubSeq(a, 1, Len(a) - 1))

ShiftLeft(a, k) == IF a = <<>> THEN <<>> ELSE [i \in 1..k |-> 0] \o a

\* the number in digits of LimbBits bits, the lowest first, and back
LimbBits == 13
Limbs(a) ==
    [j \in 1..((Len(a) + LimbBits - 1) \div LimbBits) |->
       BitsNat(SubSeq(a, LimbBits * (j - 1) + 1,
                      IF LimbBits * j < Len(a) THEN LimbBits * j ELSE Len(a)))]
LimbsBits(x) ==
    Trim([i \in 1..(LimbBits * Len(x)) |->
            (x[(i - 1) \div LimbBits + 1] \div (2 ^ ((i - 1) % LimbBits))) % 2])

RECURSIVE AddLimbs(_, _, _)
AddLimbs(x, y, carry) ==
    IF x = <<>> /\ y = <<>> THEN (IF carry = 0 THEN <<>> ELSE <<carry>>)
    ELSE LET sum == (IF x = <<>> THEN 0 ELSE Head(x))
                      + (IF y = <<>> THEN 0 ELSE Head(y)) + carry
         IN  <<sum % (2 ^ LimbBits)>>
               \o AddLimbs(IF x = <<>> THEN <<>> ELSE Tail(x),
                           IF y = <<>> THEN <<>> ELSE Tail(y),
                           sum \div (2 ^ LimbBits))

\* n is less than 2^17
RECURSIVE MulLimbs(_, _, _)
MulLimbs(x, n, carry) ==
    IF x = <<>> THEN Limbs(NatBits(carry))
    ELSE LET digit == Head(x) * n + carry
         IN  <<digit % (2 ^ LimbBits)>>
               \o MulLimbs(Tail(x), n, digit \div (2 ^ LimbBits))

\* the exact sum, and the exact product with a natural number
AddBits(a, b) == LimbsBits(AddLimbs(Limbs(a), Limbs(b), 0))
MulBits(a, n) == LimbsBits(MulLimbs(Limbs(a), n, 0))

LessBits(a, b) ==
    \/ Len(a) < Len(b)
    \/ /\ Len(a) = Len(b)
       /\ \E i \in 1..Len(a) :
            a[i] < b[i] /\ \A j \in (i + 1)..Len(a) : a[j] = b[j]

\* the double nearest to the number
RoundBits(a) ==
    IF Len(a) <= Precision THEN a
    ELSE LET d == Len(a) - Precision
             kept == SubSeq(a, d + 1, Len(a))
             rest == \E i \in 1..(d - 1) : a[i] = 1
             up == a[d] = 1 /\ (rest \/ kept[1] = 1)
         IN  ShiftLeft(IF up THEN AddBits(kept, <<1>>) ELSE kept, d)

\* an integer in units of 2^-53, and Math.floor
Fixed(n) == ShiftLeft(NatBits(n), Precision)
Floor(a) == BitsNat(SubSeq(a, Precision + 1, Len(a)))

\* the multiplication and the addition of doubles
FloatMul(r, n) == RoundBits(MulBits(r, n))
FloatAdd(a, b) == RoundBits(AddBits(a, b))

BOT_SPAWN_DELAY == [min |-> 13000, max |-> 25000]

\* botLogic.js getRandomBotSpawnDelay, random being what Math.random() returns
getRandomBotSpawnDelay(random) == Fixed(Floor(FloatMul(random, 12000)) + 13000)

\* attemptMatchOrEnqueue, const delay
QueueSpawnDelay(random) ==
    FloatAdd(Fixed(BOT_SPAWN_DELAY.min),
             FloatMul(random, BOT_SPAWN_DELAY.max - BOT_SPAWN_DELAY.min))

\* The values of Math.random() followed: the doubles m * 2^-53 of [0, 1)
\* whose upper bits are all 0, all 1 or alternate, with any LowBits lower bits
LowBits == 6
UpperBits(kind) ==
    [i \in 1..(Precision - LowBits) |->
       IF kind = "ones" THEN 1 ELSE IF kind = "zeros" THEN 0 ELSE i % 2]
Draws ==
    {Trim([i \in 1..LowBits |-> (low \div (2 ^ (i - 1))) % 2] \o UpperBits(kind)) :
       low \in 0..(2 ^ LowBits - 1), kind \in {"zeros", "ones", "alternating"}}

InitDelay ==
    /\ spawnRandom \in Draws
    /\ spawnDelay = NoDelay
    /\ InitEvalVars /\ InitOutcomeVars /\ InitRematchVars /\ InitMoveVars
    /\ InitNoMatch

\* the webhook sets the bot spawn timer of a client that waits alone
WebhookSetsTimer ==
    /\ spawnDelay = NoDelay
    /\ spawnDelay' = [path |-> "webhook", delay |-> getRandomBotSpawnDelay(spawnRandom)]
    /\ UNCHANGED spawnRandom

\* attemptMatchOrEnqueue sets the bot spawn timer of a client it has queued
QueueSetsTimer ==
    /\ spawnDelay = NoDelay
    /\ spawnDelay' = [path |-> "queue", delay |-> QueueSpawnDelay(spawnRandom)]
    /\ UNCHANGED spawnRandom

NextDelay ==
    /\ WebhookSetsTimer \/ QueueSetsTimer
    /\ UNCHANGED <<evalVars, outcomeVars, matchVars, rematchVars, moveVars>>

SpecDelay == InitDelay /\ [][NextDelay]_vars

(***************************************************************************)
(* Specification of the rematch rule: any sequence of BotPlayer            *)
(* constructions for the addresses at the scripted bets, with the log of   *)
(* what the first calls per address and high bet saw and returned          *)
(***************************************************************************)
RematchBets == {50} \cup HighBets

\* history.patternIndex300 and betInfo.gameCount as the call finds them
CursorOf(address) ==
    IF address \in DOMAIN playerHistory
    THEN playerHistory[address].patternIndex300 ELSE 0
GameCountOf(address) ==
    IF address \in DOMAIN betHistory THEN betHistory[address].gameCount ELSE 0

\* the entry of the log for the call that lastDecision' describes
Logged(address) ==
    [pattern |-> lastDecision'.pattern,
     outcome |-> lastDecision'.outcome,
     shouldWin |-> lastDecision'.shouldWin,
     patternIndex |-> CursorOf(address),
     gameCount |-> GameCountOf(address)]

DecideLogged(address, betAmount) ==
    /\ Decide(address, betAmount)
    /\ tierLog' =
         IF betAmount \in HighBets
         THEN [tierLog EXCEPT ![<<address, betAmount>>] =
                 [verdicts |-> IF Len(@.verdicts) < MaxLogged
                               THEN Append(@.verdicts, Logged(address))
                               ELSE @.verdicts,
                  overrides |-> IF lastDecision'.pattern = "300_plus_revenge"
                                THEN @.overrides + 1 ELSE @.overrides]]
         ELSE tierLog

NextRematch ==
    /\ \E address \in Addresses, betAmount \in RematchBets :
         DecideLogged(address, betAmount)
    /\ UNCHANGED <<evalVars, matchVars, moveVars, delayVars>>

SpecRematch == InitOutcome /\ [][NextRematch]_vars

(***************************************************************************)
(* The match: class Game (server.js)                                       *)
(***************************************************************************)
Sockets == {"h1", "h2"}
BotId == "bot"
BotAddress == "bot@speed.app"
AddressOf(socketId) == IF socketId = "h1" THEN "a1" ELSE "a2"

\* Game constructor; turnTimer is TRUE while the handle this.turnTimer is that
\* of a pending timer and turnDeadlineAt keeps the allowance of the last timer
\* started; liveTimers counts the setTimeout callbacks of startTurnTimer that
\* have neither run nor been cleared, and armedFor keeps the round and the
\* move count at which the last of them was set
NewGame(id, betAmount) ==
    [id |-> id, betAmount |-> betAmount, players |-> <<>>,
     board |-> EmptyBoard, turn |-> Null, status |-> "waiting",
     winner |-> Null, winLine |-> <<>>, turnTimer |-> FALSE,
     isFirstTurn |-> TRUE, moveCount |-> 0, startingPlayer |-> Null,
     turnDeadlineAt |-> 0, liveTimers |-> 0, armedFor |-> <<0, 0>>]

HasPlayer(g, socketId) ==
    \E i \in 1..Len(g.players) : g.players[i].socketId = socketId

PlayerOf(g, socketId) ==
    g.players[CHOOSE i \in 1..Len(g.players) : g.players[i].socketId = socketId]

\* this.players[id]?.isBot
IsBot(g, socketId) == HasPlayer(g, socketId) /\ PlayerOf(g, socketId).isBot

\* Object.keys(this.players).find(test): the first id in insertion order
\* (hit is the set of the positions that pass the test)
PlayerIndices(g) == 1..Len(g.players)
FirstWhere(g, hit) ==
    IF hit = {} THEN Null ELSE g.players[MinOf(hit)].socketId

\* playerIds.find(id => id !== socketId)
OtherThan(g, socketId) == 
    FirstWhere(g, {i \in PlayerIndices(g) : g.players[i].socketId # socketId})

\* Game.addPlayer; first is the index drawn for the starting player
addPlayer(g, socketId, lightningAddress, isBot, first) ==
    LET symbol == IF Len(g.players) = 0 THEN "X" ELSE "O"
        p == [socketId |-> socketId, lightningAddress |-> lightningAddress,
              isBot |-> isBot, symbol |-> symbol]
        ps == IF HasPlayer(g, socketId)
              THEN [i \in 1..Len(g.players) |->
                      IF g.players[i].socketId = socketId THEN p ELSE g.players[i]]
              ELSE Append(g.players, p)
        g1 == [g EXCEPT !.players = ps]
    IN  IF Len(ps) = 2
        THEN [g1 EXCEPT !.status = "ready", !.turn = ps[first].socketId,
                        !.startingPlayer = ps[first].socketId]
        ELSE g1

\* the pending turn timer is left alone
clearTurnTimerNot(g) == g

\* Game.clearTurnTimer
clearTurnTimer(g) ==
    IF g.turnTimer THEN [g EXCEPT !.turnTimer = FALSE, !.liveTimers = @ - 1] ELSE g

\* the callback of the turn timer starts to run
TimerRuns(g) == [g EXCEPT !.turnTimer = FALSE, !.liveTimers = @ - 1]

FIRST_TURN_MS == 8000
TURN_MS == 5000

(***************************************************************************)
(* The server state a handler works on, as one record, and the handlers as *)
(* operators from a state to the set of states they can leave behind       *)
(***************************************************************************)
GameIds(gs) == {gs[i].id : i \in 1..Len(gs)}
GameAt(gs, gameId) == gs[CHOOSE i \in 1..Len(gs) : gs[i].id = gameId]
PutGame(w, g) ==
    [w EXCEPT !.games = [i \in 1..Len(w.games) |->
                           IF w.games[i].id = g.id THEN g ELSE w.games[i]]]

\* a pending setTimeout callback and what its closure holds; seen is the board
\* its move was computed from
Timer(kind, gameId, socketId, move) ==
    [kind |-> kind, gameId |-> gameId, socketId |-> socketId, move |-> move,
     seen |-> <<>>]

\* the log of round 1 before its first mark
NoRound == [round |-> 1, first |-> Null, last |-> Null]

\* makeBotMove: asks the session for a move now and schedules its placement;
\* two pending placements of the same move for the same id are kept as one
makeBotMove(w, gameId, botId) ==
    IF gameId \notin GameIds(w.games) THEN {w}
    ELSE IF GameAt(w.games, gameId).status # "playing" THEN {w}
    ELSE IF gameId \notin DOMAIN w.activeBots THEN {w}
    ELSE {IF r.move = NoMove
          THEN [w EXCEPT !.activeBots[gameId] = r.bot]
          ELSE [w EXCEPT !.activeBots[gameId] = r.bot,
                         !.timers = @ \cup
                           {[Timer("botMove", gameId, botId, r.move) EXCEPT
                               !.seen = GameAt(w.games, gameId).board]}]
            : r \in getNextMove(GameAt(w.games, gameId).board, w.activeBots[gameId])}

\* every turn gets the allowance of the later turns
startTurnTimerShort(w, gameId) ==
    LET g == GameAt(w.games, gameId)
        g1 == [clearTurnTimer(g) EXCEPT
                 !.turnTimer = TRUE, !.liveTimers = @ + 1,
                 !.armedFor = <<w.roundLog[gameId].round, g.moveCount>>,
                 !.turnDeadlineAt = TURN_MS]
        w1 == PutGame(w, g1)
    IN  IF IsBot(g1, g1.turn) THEN makeBotMove(w1, gameId, g1.turn) ELSE {w1}

\* Game.startTurnTimer
startTurnTimer(w, gameId) ==
    LET g == GameAt(w.games, gameId)
        g1 == [clearTurnTimer(g) EXCEPT
                 !.turnTimer = TRUE, !.liveTimers = @ + 1,
                 !.armedFor = <<w.roundLog[gameId].round, g.moveCount>>,
                 !.turnDeadlineAt = IF g.isFirstTurn THEN FIRST_TURN_MS ELSE TURN_MS]
        w1 == PutGame(w, g1)
    IN  IF IsBot(g1, g1.turn) THEN makeBotMove(w1, gameId, g1.turn) ELSE {w1}

Rejected(reason) ==
    [ok |-> FALSE, reason |-> reason, winner |-> Null, draw |-> FALSE]
Accepted(winner, draw) ==
    [ok |-> TRUE, reason |-> Null, winner |-> winner, draw |-> draw]

\* a refusal that stops the turn timer before it returns
RefuseAndStopTimer(w, gameId, reason) ==
    [w |-> PutGame(w, clearTurnTimer(GameAt(w.games, gameId))),
     res |-> Rejected(reason)]

\* Game.makeMove, return { ok: false, reason }: nothing is written
Refuse(w, gameId, reason) == [w |-> w, res |-> Rejected(reason)]

\* the turn stays with the slot that moved
NextTurnSame(g) == g.turn

\* Game.makeMove, "Switch turn": playerIds.find(id => id !== this.turn)
NextTurn(g) == OtherThan(g, g.turn)

\* Game.makeMove: the set of [w, res], res being the value returned
makeMove(w, gameId, socketId, position) ==
    LET g == GameAt(w.games, gameId) IN
    IF g.status # "playing" THEN {Refuse(w, gameId, "not_playing")}
    ELSE IF g.turn # socketId THEN {Refuse(w, gameId, "not_your_turn")}
    ELSE IF position < 0 \/ position > 8 THEN {Refuse(w, gameId, "bad_pos")}
    ELSE IF g.board[position] # Null THEN {Refuse(w, gameId, "occupied")}
    ELSE
      LET g1 == [g EXCEPT !.board[position] = PlayerOf(g, g.turn).symbol,
                          !.isFirstTurn = FALSE,
                          !.moveCount = @ + 1]
          r == checkWinner(g1.board)
          w1 == [w EXCEPT !.roundLog[gameId] =
                   [@ EXCEPT !.first = IF @ = Null THEN socketId ELSE @,
                             !.last = socketId]]
      IN  IF r.winner # Null
          THEN LET g2 == [clearTurnTimer(g1) EXCEPT !.status = "finished"] IN
               IF r.winner = "draw"
               THEN {[w |-> PutGame(w1, [g2 EXCEPT
                                           !.winner = "draw",
                                           !.startingPlayer = OtherThan(g, g.startingPlayer)]),
                      res |-> Accepted(Null, TRUE)]}
               ELSE LET winnerId == FirstWhere(g, {i \in PlayerIndices(g) :
                                                   g.players[i].symbol = r.winner}) IN
                    {[w |-> PutGame(w1, [g2 EXCEPT !.winner = winnerId,
                                                   !.winLine = r.winLine]),
                      res |-> Accepted(winnerId, FALSE)]}
          ELSE {[w |-> w2, res |-> Accepted(Null, FALSE)] :
                  w2 \in startTurnTimer(
                           PutGame(w1, [g1 EXCEPT !.turn = NextTurn(g)]),
                           gameId)}

\* PAYOUTS
PAYOUTS ==
    [betAmount \in {50, 300, 500, 1000, 5000, 10000} |->
       CASE betAmount = 50 -> [winner |-> 80, platformFee |-> 20]
         [] betAmount = 300 -> [winner |-> 500, platformFee |-> 100]
         [] betAmount = 500 -> [winner |-> 800, platformFee |-> 200]
         [] betAmount = 1000 -> [winner |-> 1700, platformFee |-> 300]
         [] betAmount = 5000 -> [winner |-> 8000, platformFee |-> 2000]
         [] betAmount = 10000 -> [winner |-> 17000, platformFee |-> 3000]]

\* the amount of the table
TablePayout(betAmount) == PAYOUTS[betAmount].winner

\* processPayout, winnerPayout: the pot less Math.floor(totalPot * 0.05)
WinnerPayout(betAmount) ==
    LET totalPot == betAmount * 2
        platformFee == (totalPot * 5) \div 100
    IN  totalPot - platformFee

\* processPayout up to its await of sendInstantPayment: without an address
\* it throws before any payment is sent
processPayout(w, winnerAddress, betAmount, gameId) ==
    [w EXCEPT !.payouts =
       Append(@, [gameId |-> gameId, address |-> winnerAddress,
                  betAmount |-> betAmount,
                  amount |-> IF winnerAddress = Null THEN 0
                             ELSE WinnerPayout(betAmount),
                  status |-> IF winnerAddress = Null THEN "failed" ELSE "pending"])]

\* handleGameEnd (the later of the two declarations, which is the one in force)
handleGameEnd(w, gameId, winnerId) ==
    IF gameId \notin GameIds(w.games) THEN w
    ELSE LET g == GameAt(w.games, gameId)
             w1 == PutGame(w, [clearTurnTimer(g) EXCEPT !.status = "finished"])
             w2 == [w1 EXCEPT !.ended = @ \cup {[gameId |-> gameId, winnerId |-> winnerId]},
                              !.timers = @ \cup {Timer("evict", gameId, Null, NoMove)}]
         IN  IF IsBot(g, winnerId) THEN w2
             ELSE processPayout(w2,
                                IF HasPlayer(g, winnerId)
                                THEN PlayerOf(g, winnerId).lightningAddress ELSE Null,
                                g.betAmount, gameId)

\* the restart after a draw keeps the move counter
handleDrawKeepsCount(w, gameId) ==
    IF gameId \notin GameIds(w.games) THEN {w}
    ELSE
      LET g == GameAt(w.games, gameId)
          otherPlayer == OtherThan(g, g.startingPlayer)
          starter == IF otherPlayer # Null THEN otherPlayer ELSE g.startingPlayer
          g1 == [clearTurnTimer(g) EXCEPT
                   !.startingPlayer = starter, !.board = EmptyBoard,
                   !.status = "playing", !.winner = Null, !.winLine = <<>>,
                   !.isFirstTurn = TRUE, !.turn = starter]
          w1 == [PutGame(w, g1) EXCEPT !.roundLog[gameId] =
                   [NoRound EXCEPT !.round = w.roundLog[gameId].round + 1]]
          botId == FirstWhere(g, {i \in PlayerIndices(g) : g.players[i].isBot})
      IN  {IF botId # Null /\ g1.turn = botId
           THEN [w2 EXCEPT !.timers = @ \cup {Timer("drawBot", gameId, botId, NoMove)}]
           ELSE w2
             : w2 \in startTurnTimer(w1, gameId)}

\* handleDraw
handleDraw(w, gameId) ==
    IF gameId \notin GameIds(w.games) THEN {w}
    ELSE
      LET g == GameAt(w.games, gameId)
          otherPlayer == OtherThan(g, g.startingPlayer)
          starter == IF otherPlayer # Null THEN otherPlayer ELSE g.startingPlayer
          g1 == [clearTurnTimer(g) EXCEPT
                   !.startingPlayer = starter, !.board = EmptyBoard,
                   !.status = "playing", !.winner = Null, !.winLine = <<>>,
                   !.moveCount = 0, !.isFirstTurn = TRUE, !.turn = starter]
          w1 == [PutGame(w, g1) EXCEPT !.roundLog[gameId] =
                   [NoRound EXCEPT !.round = w.roundLog[gameId].round + 1]]
          botId == FirstWhere(g, {i \in PlayerIndices(g) : g.players[i].isBot})
      IN  {IF botId # Null /\ g1.turn = botId
           THEN [w2 EXCEPT !.timers = @ \cup {Timer("drawBot", gameId, botId, NoMove)}]
           ELSE w2
             : w2 \in startTurnTimer(w1, gameId)}

\* what the callers of makeMove do with an accepted move
AfterMove(r, gameId, again) ==
    IF r.res.winner # Null THEN {handleGameEnd(r.w, gameId, r.res.winner)}
    ELSE IF r.res.draw THEN handleDraw(r.w, gameId)
    ELSE IF again /\ IsBot(GameAt(r.w.games, gameId), GameAt(r.w.games, gameId).turn)
         THEN makeBotMove(r.w, gameId, GameAt(r.w.games, gameId).turn)
    ELSE {r.w}

\* the slot whose time ran out is announced as the winner
TimeoutForfeitToMover(w, gameId) ==
    handleGameEnd(w, gameId, GameAt(w.games, gameId).turn)

\* Game.handleTimeout, the turn holder is no bot: the other player wins
TimeoutForfeit(w, gameId) ==
    handleGameEnd(w, gameId,
                  OtherThan(GameAt(w.games, gameId), GameAt(w.games, gameId).turn))

\* the timeout draws the cell of the bot from all the cells
TimeoutMovesAnyCell(g) == Cells

\* Game.handleTimeout, availableMoves: the empty cells the move is drawn from
TimeoutMoves(g) == Available(g.board)

\* Game.handleTimeout
handleTimeout(w, gameId) ==
    LET g == GameAt(w.games, gameId) IN
    IF g.status # "playing" THEN {w}
    ELSE IF IsBot(g, g.turn)
         THEN IF TimeoutMoves(g) = {} THEN {w}
              ELSE UNION {AfterMove(r, gameId, TRUE) :
                            r \in UNION {makeMove(w, gameId, g.turn, move) :
                                           move \in TimeoutMoves(g)}}
    ELSE {TimeoutForfeit(w, gameId)}

(***************************************************************************)
(* The handlers of server.js as actions                                    *)
(***************************************************************************)
W ==
    [games |-> games, activeBots |-> activeBots, timers |-> timers,
     ended |-> ended, roundLog |-> roundLog, payouts |-> payouts]

Commit(w) ==
    /\ games' = w.games
    /\ activeBots' = w.activeBots
    /\ timers' = w.timers
    /\ ended' = w.ended
    /\ roundLog' = w.roundLog
    /\ payouts' = w.payouts

\* the tier the clients of the match choose, one of ALLOWED_BETS
MatchBets == {300}
\* the cells a client can ask for, 0..8 and one off each end
Positions == -1..9
\* the game ids a client can name
MaxGames == 2

NewGameId(gs) == Len(gs) + 1

\* Object.values(games).find(g => Object.keys(g.players).length === 1 &&
\* g.betAmount === betAmount): its index, or 0
FindWaiting(gs, betAmount) ==
    LET hit == {i \in 1..Len(gs) :
                  Len(gs[i].players) = 1 /\ gs[i].betAmount = betAmount}
    IN  IF hit = {} THEN 0 ELSE MinOf(hit)

\* Object.values(games).find(g => g.players[socketId]): its index, or 0
FindGameOf(gs, socketId) ==
    LET hit == {i \in 1..Len(gs) : HasPlayer(gs[i], socketId)}
    IN  IF hit = {} THEN 0 ELSE MinOf(hit)


\* sock.emit('paymentVerified')
PaymentVerified == [event |-> "paymentVerified", opponentType |-> Null, automated |-> FALSE]

\* emit('matchFound', { opponent: { type }, startsIn, startAt }); automated
\* tells whether the opponent seated in the match is a bot
MatchFound(opponentType, automated) ==
    [event |-> "matchFound", opponentType |-> opponentType, automated |-> automated]

\* io.sockets.sockets.get(pid)?.emit: the clients among socks that are
\* connected get the notice
Emit(log, socks, notice) ==
    [s \in DOMAIN log \cup (socks \cap connected) |->
       IF s \in socks \cap connected THEN notice ELSE log[s]]

\* the socket ids of the players of the game that are no bots
Humans(g) == {g.players[i].socketId : i \in {j \in 1..Len(g.players) : ~g.players[j].isBot}}

\* socket.on('joinGame')
joinGame(sock, betAmount) ==
    /\ sock \in connected
    /\ players' =
         (sock :> [lightningAddress |-> AddressOf(sock), paid |-> FALSE,
                   betAmount |-> betAmount]) @@ players
    /\ lastEvent' = Event("joinGame", 0)
    /\ UNCHANGED <<connected, games, activeBots, waitingQueue, timers, ended,
                   roundLog, notified, payouts, asideVars, outcomeVars>>

\* find or create the waiting game of the tier and add the payer
Seat(sock, first) ==
    LET found == FindWaiting(games, players[sock].betAmount)
        gameId == IF found = 0 THEN NewGameId(games) ELSE games[found].id
        gs == IF found = 0
              THEN Append(games, NewGame(gameId, players[sock].betAmount))
              ELSE games
        g == addPlayer(GameAt(gs, gameId), sock, players[sock].lightningAddress,
                       FALSE, first)
    IN  [game |-> g,
         games |-> [i \in 1..Len(gs) |-> IF gs[i].id = gameId THEN g ELSE gs[i]]]

\* the webhook on 'payment.confirmed' for the invoice of sock
PaymentConfirmed(sock) ==
    /\ sock \in connected
    /\ sock \in DOMAIN players
    /\ ~players[sock].paid
    /\ \E first \in 1..2 :
         LET s == Seat(sock, first) IN
         /\ games' = s.games
         /\ roundLog' = IF s.game.id \in DOMAIN roundLog THEN roundLog
                        ELSE roundLog @@ (s.game.id :> NoRound)
         /\ timers' = timers \cup
              {IF Len(s.game.players) = 2
               THEN Timer("start", s.game.id, Null, NoMove)
               ELSE Timer("botSpawn", 0, sock, NoMove)}
         /\ notified' =
              IF Len(s.game.players) = 2
              THEN Emit(Emit(notified, {sock}, PaymentVerified),
                        Humans(s.game), MatchFound("player", FALSE))
              ELSE Emit(notified, {sock}, PaymentVerified)
    /\ players' = [players EXCEPT ![sock].paid = TRUE]
    /\ lastEvent' = Event("payment", 0)
    /\ UNCHANGED <<connected, activeBots, waitingQueue, ended, payouts, asideVars,
                   outcomeVars>>

\* handleInvoicePaid and attemptMatchOrEnqueue for the invoice of sock
InvoicePaid(sock) ==
    /\ sock \in connected
    /\ sock \in DOMAIN players
    /\ ~players[sock].paid
    /\ players' = [players EXCEPT ![sock].paid = TRUE]
    /\ IF FindGameOf(games, sock) # 0
       THEN /\ notified' = Emit(notified, {sock}, PaymentVerified)
            /\ UNCHANGED <<games, roundLog, timers, waitingQueue>>
       ELSE \E first \in 1..2 :
              LET s == Seat(sock, first) IN
              /\ games' = s.games
              /\ roundLog' = IF s.game.id \in DOMAIN roundLog THEN roundLog
                             ELSE roundLog @@ (s.game.id :> NoRound)
              /\ IF Len(s.game.players) = 2
                 THEN /\ timers' = timers \cup
                           {Timer("startQueue", s.game.id, Null, NoMove)}
                      /\ notified' =
                           Emit(Emit(notified, {sock}, PaymentVerified),
                                Humans(s.game), MatchFound("player", FALSE))
                      /\ UNCHANGED waitingQueue
                 ELSE /\ timers' = timers \cup
                           {Timer("botSpawnQueue", 0, sock, NoMove)}
                      /\ notified' = Emit(notified, {sock}, PaymentVerified)
                      /\ waitingQueue' =
                           IF \E i \in 1..Len(waitingQueue) : waitingQueue[i] = sock
                           THEN waitingQueue ELSE Append(waitingQueue, sock)
    /\ lastEvent' = Event("invoicePaid", 0)
    /\ UNCHANGED <<connected, activeBots, ended, payouts, asideVars, outcomeVars>>

\* new BotPlayer(gameId, betAmount, opponentAddress): the sessions the
\* constructor can build, with the cursors it leaves behind
NewBotPlayer(betAmount, opponentAddress) ==
    UNION {{[bot |-> [shouldWin |-> d.shouldWin, drawCount |-> 0,
                      maxDrawsBeforeEnd |-> maxDraws],
             playerHistory |-> d.playerHistory, betHistory |-> d.betHistory] :
               maxDraws \in DrawThresholds(d.shouldWin)} :
             d \in {determineOutcome(playerHistory, betHistory, betAmount,
                                     opponentAddress, rnd) : rnd \in BOOLEAN}}

\* the bot spawn timer set by the webhook fires; when the client no longer
\* waits alone the callback does nothing and botSpawnTimers keeps the handle
BotSpawnFires(t) ==
    /\ t \in timers
    /\ t.kind = "botSpawn"
    /\ LET hit == {i \in 1..Len(games) :
                     HasPlayer(games[i], t.socketId) /\ Len(games[i].players) = 1}
       IN  IF hit = {}
           THEN UNCHANGED <<games, activeBots, playerHistory, betHistory, timers,
                            lastEvent, notified>>
           ELSE LET currentGame == games[MinOf(hit)] IN
                \E b \in NewBotPlayer(currentGame.betAmount,
                                      players[t.socketId].lightningAddress),
                   first \in 1..2 :
                  /\ playerHistory' = b.playerHistory
                  /\ betHistory' = b.betHistory
                  /\ activeBots' = (currentGame.id :> b.bot) @@ activeBots
                  /\ games' = [i \in 1..Len(games) |->
                                 IF i = MinOf(hit)
                                 THEN addPlayer(currentGame, BotId, BotAddress, TRUE, first)
                                 ELSE games[i]]
                  /\ timers' = (timers \ {t}) \cup
                                 {Timer("startBot", currentGame.id, BotId, NoMove)}
                  /\ lastEvent' = Event("botSpawn", currentGame.id)
                  /\ notified' = Emit(notified, Humans(currentGame),
                                      MatchFound("player", TRUE))
    /\ UNCHANGED <<connected, players, waitingQueue, ended, roundLog, payouts, asideVars,
                   decided, totalDecided, lastDecision>>

\* the bot spawn timer set by attemptMatchOrEnqueue fires: a new game of the
\* waiting client and a bot, without a BotPlayer session
BotSpawnQueueFires(t) ==
    /\ t \in timers
    /\ t.kind = "botSpawnQueue"
    /\ timers' = (timers \ {t}) \cup
         (IF \E i \in 1..Len(waitingQueue) : waitingQueue[i] = t.socketId
          THEN {Timer("startQueueBot", NewGameId(games), BotId, NoMove)}
          ELSE {})
    /\ IF \E i \in 1..Len(waitingQueue) : waitingQueue[i] = t.socketId
       THEN \E first \in 1..2 :
              LET gameId == NewGameId(games)
                  g1 == addPlayer(NewGame(gameId, players[t.socketId].betAmount),
                                  t.socketId, players[t.socketId].lightningAddress,
                                  FALSE, first)
                  g2 == addPlayer(g1, BotId, BotAddress, TRUE, first)
              IN  /\ games' = Append(games, g2)
                  /\ roundLog' = roundLog @@ (gameId :> NoRound)
                  /\ waitingQueue' = SelectSeq(waitingQueue,
                                               LAMBDA s : s # t.socketId)
                  /\ notified' = Emit(notified, {t.socketId}, MatchFound("bot", TRUE))
       ELSE UNCHANGED <<games, roundLog, waitingQueue, notified>>
    /\ lastEvent' = Event("botSpawnQueue", 0)
    /\ UNCHANGED <<connected, players, activeBots, ended, payouts, asideVars,
                   outcomeVars>>

\* the 5 s countdown after matchFound ends
CountdownFires(t) ==
    /\ t \in timers
    /\ t.kind \in {"start", "startBot", "startQueue", "startQueueBot"}
    /\ LET w0 == [W EXCEPT !.timers = @ \ {t}] IN
       IF t.gameId \notin GameIds(games)
       THEN Commit(w0)
       ELSE \E w1 \in startTurnTimer(
                        PutGame(w0, [GameAt(games, t.gameId) EXCEPT !.status = "playing"]),
                        t.gameId) :
              LET g == GameAt(w1.games, t.gameId) IN
              IF t.kind = "startBot" /\ IsBot(g, g.turn)
              THEN Commit([w1 EXCEPT !.timers = @ \cup
                             {Timer("botFirst", t.gameId, Null, NoMove)}])
              ELSE IF t.kind = "startQueueBot" /\ g.turn = t.socketId
              THEN \E w2 \in makeBotMove(w1, t.gameId, t.socketId) : Commit(w2)
              ELSE Commit(w1)
    /\ lastEvent' = Event("countdown", t.gameId)
    /\ UNCHANGED <<connected, players, waitingQueue, notified, asideVars, outcomeVars>>

\* the 500 ms timer of a match the bot starts
BotFirstFires(t) ==
    /\ t \in timers
    /\ t.kind = "botFirst"
    /\ LET w0 == [W EXCEPT !.timers = @ \ {t}] IN
       IF t.gameId \in GameIds(games) /\ GameAt(games, t.gameId).status = "playing"
       THEN \E w1 \in makeBotMove(w0, t.gameId, GameAt(games, t.gameId).turn) :
              Commit(w1)
       ELSE Commit(w0)
    /\ lastEvent' = Event("botFirst", t.gameId)
    /\ UNCHANGED <<connected, players, waitingQueue, notified, asideVars, outcomeVars>>

\* the 1500 ms timer of a round the bot starts after a draw
DrawBotFires(t) ==
    /\ t \in timers
    /\ t.kind = "drawBot"
    /\ LET w0 == [W EXCEPT !.timers = @ \ {t}] IN
       IF /\ t.gameId \in GameIds(games)
          /\ GameAt(games, t.gameId).status = "playing"
          /\ GameAt(games, t.gameId).turn = t.socketId
       THEN \E w1 \in makeBotMove(w0, t.gameId, t.socketId) : Commit(w1)
       ELSE Commit(w0)
    /\ lastEvent' = Event("drawBot", t.gameId)
    /\ UNCHANGED <<connected, players, waitingQueue, notified, asideVars, outcomeVars>>

\* the callback makeBotMove scheduled runs
BotMoveFires(t) ==
    /\ t \in timers
    /\ t.kind = "botMove"
    /\ LET w0 == [W EXCEPT !.timers = @ \ {t}] IN
       IF \/ t.gameId \notin GameIds(games)
          \/ GameAt(games, t.gameId).status # "playing"
          \/ GameAt(games, t.gameId).turn # t.socketId
       THEN Commit(w0)
       ELSE \E r \in makeMove(w0, t.gameId, t.socketId, t.move) :
              IF r.res.ok
              THEN \E w1 \in AfterMove(r, t.gameId, TRUE) : Commit(w1)
              ELSE Commit(r.w)
    /\ lastEvent' = Event("botMove", t.gameId)
    /\ UNCHANGED <<connected, players, waitingQueue, notified, asideVars, outcomeVars>>

\* a scheduled bot callback of the game is pending: each is due before the
\* turn timer of the game (at most 2500 ms against 5000 ms and more)
BotTimerPending(gameId) ==
    \E t \in timers : t.gameId = gameId /\ t.kind \in {"botMove", "botFirst", "drawBot"}

\* the turn timer of the game fires
TurnTimerFires(gameId) ==
    /\ gameId \in GameIds(games)
    /\ GameAt(games, gameId).liveTimers > 0
    /\ ~BotTimerPending(gameId)
    /\ \E w1 \in handleTimeout(
                   PutGame(W, TimerRuns(GameAt(games, gameId))), gameId) :
         Commit(w1)
    /\ lastEvent' = Event("turnTimer", gameId)
    /\ UNCHANGED <<connected, players, waitingQueue, notified, asideVars, outcomeVars>>

\* socket.on('makeMove')
MakeMoveRequest(sock, gameId, position) ==
    /\ sock \in connected
    /\ IF gameId \notin GameIds(games)
       THEN UNCHANGED <<games, activeBots, timers, ended, roundLog, payouts, lastEvent>>
       ELSE LET game == GameAt(games, gameId)
                playerIdInGame ==
                  FirstWhere(game, {i \in PlayerIndices(game) :
                    \/ game.players[i].socketId = sock
                    \/ /\ sock \in DOMAIN players
                       /\ game.players[i].lightningAddress
                            = players[sock].lightningAddress})
            IN  IF playerIdInGame = Null \/ game.turn # playerIdInGame
                THEN UNCHANGED <<games, activeBots, timers, ended, roundLog, payouts, lastEvent>>
                ELSE \E r \in makeMove(W, gameId, playerIdInGame, position) :
                       IF r.res.ok
                       THEN /\ \E w1 \in AfterMove(r, gameId, FALSE) : Commit(w1)
                            /\ lastEvent' = Event("makeMove", gameId)
                       ELSE Commit(r.w) /\ UNCHANGED lastEvent
    /\ UNCHANGED <<connected, players, waitingQueue, notified, asideVars, outcomeVars>>

\* a resignation is taken whatever the status of the match
ResignAnyStatus(sock, gameId) ==
    /\ sock \in connected
    /\ gameId \in GameIds(games)
    /\ Commit(handleGameEnd(W, gameId, OtherThan(GameAt(games, gameId), sock)))
    /\ lastEvent' = Event("resign", gameId)
    /\ UNCHANGED <<connected, players, waitingQueue, notified, asideVars, outcomeVars>>

\* socket.on('resign')
Resign(sock, gameId) ==
    /\ sock \in connected
    /\ gameId \in GameIds(games)
    /\ GameAt(games, gameId).status = "playing"
    /\ Commit(handleGameEnd(W, gameId, OtherThan(GameAt(games, gameId), sock)))
    /\ lastEvent' = Event("resign", gameId)
    /\ UNCHANGED <<connected, players, waitingQueue, notified, asideVars, outcomeVars>>

\* socket.on('disconnect')
Disconnect(sock) ==
    /\ sock \in connected
    /\ connected' = connected \ {sock}
    /\ waitingQueue' = SelectSeq(waitingQueue, LAMBDA s : s # sock)
    /\ players' = [s \in DOMAIN players \ {sock} |-> players[s]]
    /\ LET w0 == [W EXCEPT !.timers =
                    {t \in @ : ~(t.kind \in {"botSpawn", "botSpawnQueue"}
                                 /\ t.socketId = sock)}]
           found == FindGameOf(games, sock)
       IN  IF found # 0 /\ games[found].status = "playing"
           THEN Commit(handleGameEnd(w0, games[found].id,
                                     OtherThan(games[found], sock)))
           ELSE Commit(w0)
    /\ lastEvent' = Event("disconnect", 0)
    /\ UNCHANGED <<notified, asideVars, outcomeVars>>

\* 30 s after handleGameEnd the game leaves the registry
EvictFires(t) ==
    /\ t \in timers
    /\ t.kind = "evict"
    /\ ~BotTimerPending(t.gameId)
    /\ timers' = timers \ {t}
    /\ games' = SelectSeq(games, LAMBDA g : g.id # t.gameId)
    /\ lastEvent' = Event("evict", t.gameId)
    /\ UNCHANGED <<connected, players, activeBots, waitingQueue, ended, roundLog,
                   notified, payouts, asideVars, outcomeVars>>

\* a payout that failed is attempted again
PayoutSettlesRetry(i) ==
    /\ i \in 1..Len(payouts)
    /\ payouts[i].status = "pending"
    /\ \E status \in {"sent", "failed"} :
         payouts' = IF status = "failed"
                    THEN Append([payouts EXCEPT ![i].status = status], payouts[i])
                    ELSE [payouts EXCEPT ![i].status = status]
    /\ lastEvent' = Event("payout", payouts[i].gameId)
    /\ UNCHANGED <<connected, players, games, activeBots, waitingQueue, timers, ended,
                   roundLog, notified, asideVars, outcomeVars>>

\* sendInstantPayment of the payout resolves: the payment was sent or it
\* failed, and processPayout ends
PayoutSettles(i) ==
    /\ i \in 1..Len(payouts)
    /\ payouts[i].status = "pending"
    /\ \E status \in {"sent", "failed"} :
         payouts' = [payouts EXCEPT ![i].status = status]
    /\ lastEvent' = Event("payout", payouts[i].gameId)
    /\ UNCHANGED <<connected, players, games, activeBots, waitingQueue, timers, ended,
                   roundLog, notified, asideVars, outcomeVars>>

(***************************************************************************)
(* Specification of the match: two clients, followed from their connection *)
(* through one match against each other or against a bot                   *)
(***************************************************************************)
Init ==
    /\ InitEvalVars
    /\ InitOutcomeVars
    /\ InitRematchVars
    /\ InitMoveVars
    /\ InitDelayVars
    /\ connected = Sockets
    /\ players = <<>>
    /\ games = <<>>
    /\ activeBots = <<>>
    /\ waitingQueue = <<>>
    /\ timers = {}
    /\ ended = {}
    /\ roundLog = <<>>
    /\ lastEvent = NoEvent
    /\ notified = <<>>
    /\ payouts = <<>>

\* The environment followed: the two clients choose the same tier, h1 first,
\* and both have joined when the first invoice is paid; an invoice is paid
\* while no game has two players or has ended and nobody waits in the queue,
\* that of h1 first
FirstPayer == "h1"
MayJoin(sock, betAmount) ==
    /\ sock \notin DOMAIN players
    /\ \A other \in DOMAIN players :
         players[other].betAmount = betAmount /\ ~players[other].paid
    /\ sock # FirstPayer => FirstPayer \in DOMAIN players
MayPay(sock) ==
    /\ DOMAIN players = Sockets
    /\ waitingQueue = <<>>
    /\ \A i \in 1..Len(games) : Len(games[i].players) < 2
    /\ ended = {}
    /\ sock # FirstPayer => players[FirstPayer].paid

\* the match is followed through MaxRounds rounds
MaxRounds == 1
Followed(gameId) ==
    gameId \in DOMAIN roundLog => roundLog[gameId].round <= MaxRounds

\* a client is followed until its match has finished
Seated(sock) ==
    \E i \in 1..Len(games) :
      HasPlayer(games[i], sock) /\ games[i].status # "finished"

\* the socket handler hands the request of sock to Game.makeMove
Handed(sock, gameId) ==
    /\ gameId \in GameIds(games)
    /\ HasPlayer(GameAt(games, gameId), sock)
    /\ GameAt(games, gameId).turn = sock

\* a client leaves time for the bot callbacks pending when it sends a move; a
\* request the socket handler refuses is followed for one position
Next ==
    \/ \E sock \in Sockets, betAmount \in MatchBets :
         MayJoin(sock, betAmount) /\ joinGame(sock, betAmount)
    \/ \E sock \in Sockets : MayPay(sock) /\ PaymentConfirmed(sock)
    \/ \E sock \in Sockets : MayPay(sock) /\ InvoicePaid(sock)
    \/ \E t \in timers : BotSpawnFires(t)
    \/ \E t \in timers : BotSpawnQueueFires(t)
    \/ \E t \in timers : CountdownFires(t)
    \/ \E t \in timers : BotFirstFires(t)
    \/ \E t \in timers : DrawBotFires(t)
    \/ \E t \in timers : Followed(t.gameId) /\ BotMoveFires(t)
    \/ \E gameId \in 1..MaxGames : Followed(gameId) /\ TurnTimerFires(gameId)
    \/ \E sock \in Sockets, gameId \in 1..MaxGames, position \in Positions :
         /\ Followed(gameId)
         /\ ~BotTimerPending(gameId)
         /\ Handed(sock, gameId) \/ position = 0
         /\ MakeMoveRequest(sock, gameId, position)
    \/ \E sock \in Sockets, gameId \in 1..MaxGames : Resign(sock, gameId)
    \/ \E sock \in Sockets : Seated(sock) /\ Disconnect(sock)
    \/ \E t \in timers : EvictFires(t)

Spec == Init /\ [][Next]_vars

(***************************************************************************)
(* Specification of the match of a returning client: the address of the    *)
(* first payer has played one match before, at another bet of 300 or more, *)
(* so the session of its bot is created from the second token, W           *)
(***************************************************************************)
EarlierBet == 500

\* the maps as new BotPlayer(g0, EarlierBet, address) left them
AfterEarlierMatch(address) ==
    determineOutcome(<<>>, <<>>, EarlierBet, address, FALSE)

InitReturning ==
    /\ InitEvalVars
    /\ InitRematchVars
    /\ InitMoveVars
    /\ InitDelayVars
    /\ playerHistory = AfterEarlierMatch(AddressOf(FirstPayer)).playerHistory
    /\ betHistory = AfterEarlierMatch(AddressOf(FirstPayer)).betHistory
    /\ decided = [k \in Addresses \X OutcomeBets |-> 0]
    /\ totalDecided = 0
    /\ lastDecision = NoDecision
    /\ connected = Sockets
    /\ players = <<>>
    /\ games = <<>>
    /\ activeBots = <<>>
    /\ waitingQueue = <<>>
    /\ timers = {}
    /\ ended = {}
    /\ roundLog = <<>>
    /\ lastEvent = NoEvent
    /\ notified = <<>>
    /\ payouts = <<>>

SpecReturning == InitReturning /\ [][Next]_vars

(***************************************************************************)
(* Specification of the matchmaking: two clients, each at a bet of its     *)
(* own, paying on either path, leaving at any time, and joining again once *)
(* their match has finished; followed up to the start of the matches, for  *)
(* less than the 30 s a finished match stays in the registry               *)
(***************************************************************************)
LobbyBets == {50, 300}

\* the client has paid and every match of the registry that lists it has
\* finished
MatchOver(sock) ==
    /\ sock \in DOMAIN players
    /\ players[sock].paid
    /\ FindGameOf(games, sock) # 0
    /\ \A i \in 1..Len(games) :
         HasPlayer(games[i], sock) => games[i].status = "finished"

NextLobby ==
    \/ \E sock \in Sockets, betAmount \in LobbyBets :
         /\ sock \notin DOMAIN players \/ MatchOver(sock)
         /\ joinGame(sock, betAmount)
    \/ \E sock \in Sockets : PaymentConfirmed(sock)
    \/ \E sock \in Sockets : InvoicePaid(sock)
    \/ \E t \in timers : BotSpawnFires(t)
    \/ \E t \in timers : BotSpawnQueueFires(t)
    \/ \E t \in timers : CountdownFires(t)
    \/ \E sock \in Sockets : Disconnect(sock)

SpecLobby == Init /\ [][NextLobby]_vars

(***************************************************************************)
(* Specification of the matchmaking of attemptMatchOrEnqueue with its      *)
(* timers: the two clients at one bet, paying through handleInvoicePaid,   *)
(* leaving at any time and joining again once the match they were notified *)
(* of has finished; a callback set with setTimeout runs                    *)
(***************************************************************************)
\* the last notification of the client is the matchFound of its match
Matched(sock) ==
    sock \in DOMAIN notified /\ notified[sock].event = "matchFound"

NextQueue ==
    \/ \E sock \in Sockets, betAmount \in MatchBets :
         /\ sock \notin DOMAIN players \/ (MatchOver(sock) /\ Matched(sock))
         /\ joinGame(sock, betAmount)
    \/ \E sock \in Sockets : InvoicePaid(sock)
    \/ \E t \in timers : BotSpawnQueueFires(t)
    \/ \E t \in timers : CountdownFires(t)
    \/ \E sock \in Sockets : Disconnect(sock)

QueueFairness ==
    /\ WF_vars(\E t \in timers : BotSpawnQueueFires(t))
    /\ WF_vars(\E t \in timers : CountdownFires(t))

SpecQueueFair == Init /\ [][NextQueue]_vars /\ QueueFairness

(***************************************************************************)
(* Specification of the match of one client against the bot with a         *)
(* session, the client moving in time by a policy: complete a line when    *)
(* one can be completed, else block the line the bot can complete, else    *)
(* mark any empty cell                                                     *)
(***************************************************************************)
\* the empty cells that complete a line of the mark
Completing(board, mark) ==
    {c \in Available(board) :
        checkWinner([board EXCEPT ![c] = mark]).winner = mark}

PolicyMoves(g, sock) ==
    LET own == Completing(g.board, PlayerOf(g, sock).symbol)
        theirs == Completing(g.board, PlayerOf(g, OtherThan(g, sock)).symbol)
    IN  IF own # {} THEN own
        ELSE IF theirs # {} THEN theirs
        ELSE Available(g.board)

\* the match is followed through MaxPolicyRounds rounds
MaxPolicyRounds == 2
PolicyFollowed(gameId) ==
    gameId \in DOMAIN roundLog => roundLog[gameId].round <= MaxPolicyRounds

NextPolicy ==
    \/ \E betAmount \in MatchBets :
         /\ FirstPayer \notin DOMAIN players
         /\ joinGame(FirstPayer, betAmount)
    \/ /\ FirstPayer \in DOMAIN players
       /\ games = <<>>
       /\ ended = {}
       /\ PaymentConfirmed(FirstPayer)
    \/ \E t \in timers : BotSpawnFires(t)
    \/ \E t \in timers : CountdownFires(t)
    \/ \E t \in timers : BotFirstFires(t)
    \/ \E t \in timers : DrawBotFires(t)
    \/ \E t \in timers : PolicyFollowed(t.gameId) /\ BotMoveFires(t)
    \/ \E gameId \in 1..MaxGames, position \in Cells :
         /\ PolicyFollowed(gameId)
         /\ ~BotTimerPending(gameId)
         /\ Handed(FirstPayer, gameId)
         /\ position \in PolicyMoves(GameAt(games, gameId), FirstPayer)
         /\ MakeMoveRequest(FirstPayer, gameId, position)
    \/ \E t \in timers : EvictFires(t)

SpecPolicy == Init /\ [][NextPolicy]_vars

(***************************************************************************)
(* Specification of the match of a client that answers at once: the client *)
(* sends its move as soon as it holds the turn, whether or not callbacks   *)
(* of the bot are still pending                                            *)
(***************************************************************************)
\* the client answers at once while the round has at most MaxPromptMarks
\* marks, and leaves time for the pending callbacks of the bot afterwards
MaxPromptMarks == 2
AnswersAtOnce(gameId) ==
    \/ ~BotTimerPending(gameId)
    \/ GameAt(games, gameId).moveCount <= MaxPromptMarks

NextPrompt ==
    \/ \E betAmount \in MatchBets :
         /\ FirstPayer \notin DOMAIN players
         /\ joinGame(FirstPayer, betAmount)
    \/ /\ FirstPayer \in DOMAIN players
       /\ games = <<>>
       /\ ended = {}
       /\ PaymentConfirmed(FirstPayer)
    \/ \E t \in timers : BotSpawnFires(t)
    \/ \E t \in timers : CountdownFires(t)
    \/ \E t \in timers : BotFirstFires(t)
    \/ \E t \in timers : DrawBotFires(t)
    \/ \E t \in timers : Followed(t.gameId) /\ BotMoveFires(t)
    \/ \E gameId \in 1..MaxGames : Followed(gameId) /\ TurnTimerFires(gameId)
    \/ \E gameId \in 1..MaxGames, position \in Cells :
         /\ Followed(gameId)
         /\ Handed(FirstPayer, gameId)
         /\ AnswersAtOnce(gameId)
         /\ MakeMoveRequest(FirstPayer, gameId, position)
    \/ \E t \in timers : EvictFires(t)

SpecPrompt == Init /\ [][NextPrompt]_vars

(***************************************************************************)
(* Specification of the match with its payout: one client against the bot  *)
(* with a session, the client moving by the policy, leaving or letting its *)
(* turn run out, any connected socket sending resign, followed through the *)
(* answer of the payment provider to processPayout                         *)
(***************************************************************************)
NextPayout ==
    \/ \E betAmount \in MatchBets :
         /\ FirstPayer \notin DOMAIN players
         /\ joinGame(FirstPayer, betAmount)
    \/ /\ FirstPayer \in DOMAIN players
       /\ games = <<>>
       /\ ended = {}
       /\ PaymentConfirmed(FirstPayer)
    \/ \E t \in timers : BotSpawnFires(t)
    \/ \E t \in timers : CountdownFires(t)
    \/ \E t \in timers : BotFirstFires(t)
    \/ \E t \in timers : DrawBotFires(t)
    \/ \E t \in timers : Followed(t.gameId) /\ BotMoveFires(t)
    \/ \E gameId \in 1..MaxGames : Followed(gameId) /\ TurnTimerFires(gameId)
    \/ \E gameId \in 1..MaxGames, position \in Cells :
         /\ Followed(gameId)
         /\ ~BotTimerPending(gameId)
         /\ Handed(FirstPayer, gameId)
         /\ position \in PolicyMoves(GameAt(games, gameId), FirstPayer)
         /\ MakeMoveRequest(FirstPayer, gameId, position)
    \/ \E sock \in Sockets, gameId \in 1..MaxGames : Resign(sock, gameId)
    \/ Seated(FirstPayer) /\ Disconnect(FirstPayer)
    \/ \E t \in timers : EvictFires(t)
    \/ \E i \in 1..Len(payouts) : PayoutSettles(i)

SpecPayout == Init /\ [][NextPayout]_vars

(***************************************************************************)
(* Specification of the standoff: the returning client against the bot     *)
(* whose session must win, the client moving in time by the policy,        *)
(* followed through MaxStandoffRounds rounds                               *)
(***************************************************************************)
MaxStandoffRounds == 4
StandoffFollowed(gameId) ==
    gameId \in DOMAIN roundLog => roundLog[gameId].round <= MaxStandoffRounds

NextStandoff ==
    \/ \E betAmount \in MatchBets :
         /\ FirstPayer \notin DOMAIN players
         /\ joinGame(FirstPayer, betAmount)
    \/ /\ FirstPayer \in DOMAIN players
       /\ games = <<>>
       /\ ended = {}
       /\ PaymentConfirmed(FirstPayer)
    \/ \E t \in timers : BotSpawnFires(t)
    \/ \E t \in timers : CountdownFires(t)
    \/ \E t \in timers : BotFirstFires(t)
    \/ \E t \in timers : DrawBotFires(t)
    \/ \E t \in timers : StandoffFollowed(t.gameId) /\ BotMoveFires(t)
    \/ \E gameId \in 1..MaxGames, position \in Cells :
         /\ StandoffFollowed(gameId)
         /\ ~BotTimerPending(gameId)
         /\ Handed(FirstPayer, gameId)
         /\ position \in PolicyMoves(GameAt(games, gameId), FirstPayer)
         /\ MakeMoveRequest(FirstPayer, gameId, position)
    \/ \E t \in timers : EvictFires(t)

SpecStandoff == InitReturning /\ [][NextStandoff]_vars

(***************************************************************************)
(* Specification of repeated payments: the two clients at one bet, each    *)
(* free to send joinGame again at any time and to pay the new invoice on   *)
(* either path, with the bot spawn timers and the countdowns, followed     *)
(* while the registry holds at most MaxGames matches                       *)
(***************************************************************************)
\* the payment of sock opens no match beyond MaxGames
Roomy(sock) ==
    /\ sock \in DOMAIN players
    /\ FindWaiting(games, players[sock].betAmount) # 0 \/ Len(games) < MaxGames

NextRejoin ==
    \/ \E sock \in Sockets, betAmount \in MatchBets : joinGame(sock, betAmount)
    \/ \E sock \in Sockets : Roomy(sock) /\ PaymentConfirmed(sock)
    \/ \E sock \in Sockets : Roomy(sock) /\ InvoicePaid(sock)
    \/ \E t \in timers : BotSpawnFires(t)
    \/ \E t \in timers : Len(games) < MaxGames /\ BotSpawnQueueFires(t)
    \/ \E t \in timers : CountdownFires(t)

SpecRejoin == Init /\ [][NextRejoin]_vars

(***************************************************************************)
(* Properties of the board evaluator (SpecEval)                            *)
(***************************************************************************)
\* the 8 lines of the 3x3 grid, stated from the geometry
GridRows == {{3 * r, 3 * r + 1, 3 * r + 2} : r \in 0..2}
GridColumns == {{c, c + 3, c + 6} : c \in 0..2}
GridDiagonals == {{0, 4, 8}, {2, 4, 6}}
GridLines == GridRows \cup GridColumns \cup GridDiagonals

HasLine(board, mark) == \E l \in GridLines : \A c \in l : board[c] = mark
BoardFull(board) == \A c \in Cells : board[c] # Null

\* C8: for every 9-cell board, checkWinner reports a winning mark iff one of
\* the 8 lines holds three equal non-empty marks (and then the reported mark
\* and line are such a line), reports a draw iff no line is complete and no
\* cell is empty, and never reports a winner and a draw together.
C8_CheckWinnerCorrect ==
    evalResult # NoResult =>
        /\ evalResult.winner \in Marks \cup {"draw", Null}
        /\ (evalResult.winner \in Marks) <=> (\E m \in Marks : HasLine(evalBoard, m))
        /\ evalResult.winner \in Marks =>
              /\ HasLine(evalBoard, evalResult.winner)
              /\ {evalResult.winLine[i] : i \in 1..3} \in GridLines
              /\ \A i \in 1..3 : evalBoard[evalResult.winLine[i]] = evalResult.winner
        /\ (evalResult.winner = "draw") <=>
              (BoardFull(evalBoard) /\ ~ \E m \in Marks : HasLine(evalBoard, m))
        /\ evalResult.winner = "draw" => evalResult.winLine = <<>>

\* a full board won on the last line of the table has been evaluated
C8_Witness ==
    /\ evalResult.winner = "O"
    /\ evalResult.winLine = <<2, 4, 6>>
    /\ BoardFull(evalBoard)

(***************************************************************************)
(* Properties of the outcome scripter (SpecOutcome)                        *)
(***************************************************************************)
\* the script of a bet's bucket
ScriptOf(betAmount) == IF betAmount = 50 THEN PATTERN_50_SATS ELSE PATTERN_300_PLUS

\* the k-th token (k = 1, 2, ...) of a script read cyclically from its first
CycledToken(script, k) == script[((k - 1) % Len(script)) + 1]

\* scripted decisions so far for an address in the bucket of a bet
DecidedInBucket(address, betAmount) ==
    IF betAmount = 50
    THEN decided[<<address, 50>>]
    ELSE decided[<<address, 300>>] + decided[<<address, 500>>]

C10_FirstMatchVerdict ==
    (/\ Scripted(lastDecision.pattern)
     /\ DecidedInBucket(lastDecision.address, lastDecision.betAmount) = 1) =>
        /\ lastDecision.betAmount = 50 => lastDecision.shouldWin = FALSE
        /\ lastDecision.betAmount >= 300 => lastDecision.shouldWin = TRUE

(***************************************************************************)
(* Properties of the match (Spec)                                          *)
(***************************************************************************)
Listed(gameId) == gameId \in GameIds(games)
TheGame(gameId) == GameAt(games, gameId)

\* the participant of the game that is not socketId
Opponent(g, socketId) ==
    CHOOSE id \in {g.players[i].socketId : i \in 1..Len(g.players)} : id # socketId

\* the number of marks of the participant on the board
MarksOf(g, socketId) ==
    Cardinality({c \in Cells : g.board[c] = PlayerOf(g, socketId).symbol})

Announced(gameId, winnerId) == [gameId |-> gameId, winnerId |-> winnerId]

\* C1: in a match against a bot that has finished (by a line, a timeout, a
\* disconnect or a resignation), the bot is the announced winner exactly when
\* the verdict shouldWin of its session is must-win
C1_BotWinsIffMustWin ==
    \A e \in ended :
      e.gameId \in DOMAIN activeBots =>
        ((e.winnerId = BotId) <=> activeBots[e.gameId].shouldWin)

\* C2: Game.makeMove refuses a request exactly when the match is not playing,
\* the sender does not hold the turn, the cell is outside 0..8 or the cell is
\* occupied, and a refused request leaves the board, the turn, the status, the
\* winner, the counters and the timers as they were
C2_RejectionKeepsMatch ==
    \A gameId \in GameIds(games) :
      \A socketId \in Sockets \cup {BotId}, position \in Positions :
        \A r \in makeMove(W, gameId, socketId, position) :
          LET g == TheGame(gameId)
              refused == \/ g.status # "playing"
                         \/ g.turn # socketId
                         \/ position \notin Cells
                         \/ g.board[position] # Null
          IN  /\ r.res.ok <=> ~refused
              /\ ~r.res.ok => r.w = W

\* a playing match with marks on the board where the turn holder asks for an
\* occupied cell and for a cell off the board, and is refused
C2_Witness ==
    \E gameId \in GameIds(games) :
      LET g == TheGame(gameId) IN
      /\ g.status = "playing"
      /\ lastEvent = Event("makeMove", gameId)
      /\ \E c \in Cells :
           /\ g.board[c] # Null
           /\ makeMove(W, gameId, g.turn, c) = {[w |-> W, res |-> Rejected("occupied")]}
      /\ makeMove(W, gameId, g.turn, 9) = {[w |-> W, res |-> Rejected("bad_pos")]}
      /\ makeMove(W, gameId, Opponent(g, g.turn), 4)
           = {[w |-> W, res |-> Rejected("not_your_turn")]}

\* C3: when a round ends in a draw, the slot that holds the turn at the start
\* of the next round is not the slot that placed the first mark of the round
\* that ended
C3_StarterAlternates ==
    [][\A gameId \in DOMAIN roundLog :
         (/\ Listed(gameId)
          /\ gameId \in GameIds(games')
          /\ roundLog'[gameId].round = roundLog[gameId].round + 1)
         => GameAt(games', gameId).turn # roundLog[gameId].first]_vars

\* the turn timer of the game fires in this step while a human (a bot) holds
\* the turn of the playing match
TimeoutStep(gameId, ofBot) ==
    /\ lastEvent' = Event("turnTimer", gameId)
    /\ Listed(gameId)
    /\ TheGame(gameId).status = "playing"
    /\ TheGame(gameId).turnTimer
    /\ IsBot(TheGame(gameId), TheGame(gameId).turn) = ofBot

\* C4: when the turn deadline fires in a playing match and the turn holder is
\* human, the match is finished, the other slot is announced as the winner
\* and the board is unchanged
C4_HumanTimeoutForfeits ==
    [][\A gameId \in 1..MaxGames :
         TimeoutStep(gameId, FALSE) =>
           /\ gameId \in GameIds(games')
           /\ GameAt(games', gameId).status = "finished"
           /\ GameAt(games', gameId).board = TheGame(gameId).board
           /\ ended' = ended \cup
                {Announced(gameId, Opponent(TheGame(gameId), TheGame(gameId).turn))}]_vars

\* a match with marks on the board that the timeout of its human turn holder
\* has just finished in favour of the other slot
C4_Witness ==
    \E gameId \in GameIds(games) :
      LET g == TheGame(gameId) IN
      /\ lastEvent = Event("turnTimer", gameId)
      /\ g.status = "finished"
      /\ ~IsBot(g, g.turn)
      /\ Filled(g.board) >= 2
      /\ ended = {Announced(gameId, Opponent(g, g.turn))}

\* C5: when the turn deadline fires in a playing match and the turn holder is
\* the bot, one bot mark is placed on an empty cell and the timeout never
\* announces the human as the winner; the match stays playing with the turn
\* at the human, unless the mark completes a line (the bot wins) or fills the
\* board (the round restarts)
C5_BotTimeoutMoves ==
    [][\A gameId \in 1..MaxGames :
         TimeoutStep(gameId, TRUE) =>
           LET g == TheGame(gameId)
               g2 == GameAt(games', gameId)
               bot == g.turn
               mark == PlayerOf(g, bot).symbol
               placed == {c \in Cells :
                            /\ g.board[c] = Null
                            /\ g2.board = [g.board EXCEPT ![c] = mark]}
           IN  /\ gameId \in GameIds(games')
               /\ \A e \in ended' \ ended : e = Announced(gameId, bot)
               /\ \/ /\ placed # {}
                     /\ IF HasLine(g2.board, mark)
                        THEN /\ g2.status = "finished"
                             /\ Announced(gameId, bot) \in ended'
                        ELSE /\ g2.status = "playing"
                             /\ g2.turn = Opponent(g, bot)
                             /\ ended' = ended
                  \/ /\ Filled(g.board) = 8
                     /\ g2.board = EmptyBoard
                     /\ g2.status = "playing"
                     /\ ended' = ended]_vars

\* a playing match where the timeout of the bot has just placed the mark of
\* the bot and handed the turn to the human
C5_Witness ==
    \E gameId \in GameIds(games) :
      LET g == TheGame(gameId) IN
      /\ lastEvent = Event("turnTimer", gameId)
      /\ g.status = "playing"
      /\ ~IsBot(g, g.turn)
      /\ roundLog[gameId].last = BotId
      /\ MarksOf(g, BotId) >= 2

\* C6: when a participant of a playing match disconnects, the match is
\* finished and the remaining participant is announced as the winner
C6_DisconnectForfeits ==
    [][\A sock \in Sockets, gameId \in 1..MaxGames :
         (/\ sock \in connected
          /\ sock \notin connected'
          /\ Listed(gameId)
          /\ HasPlayer(TheGame(gameId), sock)
          /\ TheGame(gameId).status = "playing")
         => /\ gameId \in GameIds(games')
            /\ GameAt(games', gameId).status = "finished"
            /\ Announced(gameId, Opponent(TheGame(gameId), sock)) \in ended']_vars

\* in the round being played the marks of the two slots differ by at most one
\* and the recorded starting player has at least as many as the other
C7_Counts ==
    \A gameId \in GameIds(games) :
      LET g == TheGame(gameId) IN
      Len(g.players) = 2 =>
        LET a == g.players[1].socketId
            b == g.players[2].socketId
        IN  /\ MarksOf(g, a) - MarksOf(g, b) \in {-1, 0, 1}
            /\ g.startingPlayer \in {a, b}
            /\ MarksOf(g, g.startingPlayer)
                 >= MarksOf(g, Opponent(g, g.startingPlayer))

\* a step that adds a mark to the round is by the slot that did not place the
\* mark before
C7_NoDoubleMove ==
    \A gameId \in DOMAIN roundLog :
      (/\ Listed(gameId)
       /\ gameId \in GameIds(games')
       /\ roundLog'[gameId].round = roundLog[gameId].round
       /\ Filled(GameAt(games', gameId).board) > Filled(TheGame(gameId).board))
      => /\ Filled(GameAt(games', gameId).board) = Filled(TheGame(gameId).board) + 1
         /\ roundLog'[gameId].last # roundLog[gameId].last

VerdictsOf(address, betAmount) == tierLog[<<address, betAmount>>].verdicts

\* C11: for every address and every bet of 300 or more, also one first played
\* after other bets: when the first decision at the bet was a loss (the token
\* L, returned as false), the second decision at the bet returns true
C11_RematchReturnsMustWin ==
    \A address \in Addresses, betAmount \in HighBets :
      LET v == VerdictsOf(address, betAmount) IN
      (Len(v) >= 2 /\ ~v[1].shouldWin) => v[2].shouldWin

\* C12: for every address and bet the revenge override decides at most one
\* call over the whole history, however many losses are scripted after it
C12_OverrideAtMostOnce ==
    \A address \in Addresses, betAmount \in HighBets :
      tierLog[<<address, betAmount>>].overrides <= 1

\* the override has decided the second call at the bet, a later call at the
\* bet got the token L, and the call after that one followed the script
C12_Witness ==
    \E address \in Addresses, betAmount \in HighBets :
      LET v == VerdictsOf(address, betAmount) IN
      /\ tierLog[<<address, betAmount>>].overrides = 1
      /\ Len(v) = 5
      /\ v[2].pattern = "300_plus_revenge"
      /\ v[4].outcome = "L"
      /\ v[5].pattern = "300_plus"

\* C13: a call at another bet between two calls at a bet neither makes the
\* first call at a bet an override nor removes the override owed: when the
\* first call at the bet was a loss, the second call at the bet is decided by
\* the override, whatever was decided at other bets in between
C13_TierSwitchKeepsOverride ==
    \A address \in Addresses, betAmount \in HighBets :
      LET v == VerdictsOf(address, betAmount) IN
      /\ Len(v) >= 1 => v[1].pattern # "300_plus_revenge"
      /\ (Len(v) >= 2 /\ v[1].outcome = "L") => v[2].pattern = "300_plus_revenge"

HumanOf(g) == Opponent(g, BotId)

\* C15: in a match whose session must win, whatever legal moves the human
\* makes and whoever starts, the board never shows a completed line of the
\* human
C15_MustWinNeverLoses ==
    \A gameId \in GameIds(games) \cap DOMAIN activeBots :
      LET g == TheGame(gameId) IN
      (activeBots[gameId].shouldWin /\ HasPlayer(g, BotId))
      => ~HasLine(g.board, PlayerOf(g, HumanOf(g)).symbol)

\* C16: in a match whose session must lose, against a human who moves in
\* time, completes a line when one can be completed and otherwise blocks, the
\* match finishes with the human as the winner; in no run is the bot
\* announced as the winner
C16_MustLoseNeverWins ==
    \A e \in ended :
      (e.gameId \in DOMAIN activeBots /\ ~activeBots[e.gameId].shouldWin)
      => e.winnerId # BotId

\* C17: for every board and every session, BotPlayer.getNextMove returns the
\* index of a cell that is empty on the board it was given, and it returns no
\* move exactly when the board has no empty cell
C17_MoveIsEmptyCell ==
    botReturn.called =>
      IF Available(botBoard) = {}
      THEN botReturn.move = NoMove
      ELSE botReturn.move \in Available(botBoard)

\* a must-win session past its draw threshold whose strategic move is the
\* corner 0, a falsy value that winningMove || available[0] replaces
C17_Witness ==
    /\ botReturn.called
    /\ botSession.shouldWin
    /\ botSession.drawCount >= botSession.maxDrawsBeforeEnd
    /\ Filled(botBoard) >= 5
    /\ getStrategicMove(botBoard) = {0}
    /\ botReturn.move = 0

(***************************************************************************)
(* Properties of the matchmaking (SpecLobby)                               *)
(***************************************************************************)
\* the payment of the client is confirmed in this step
Arrives(sock) ==
    /\ sock \in DOMAIN players
    /\ ~players[sock].paid
    /\ sock \in DOMAIN players'
    /\ players'[sock].paid

\* the positions of the registry after the step where the client has a seat
\* it did not have before
NewSeats(sock) ==
    {j \in 1..Len(games') :
       /\ HasPlayer(games'[j], sock)
       /\ j > Len(games) \/ ~HasPlayer(games[j], sock)}

\* the positions of the registry with one participant and the bet
OpenAt(betAmount) ==
    {i \in 1..Len(games) :
       Len(games[i].players) = 1 /\ games[i].betAmount = betAmount}

BotGamesOf(gs, sock) ==
    {gs[i].id : i \in {j \in 1..Len(gs) :
                          HasPlayer(gs[j], sock) /\ HasPlayer(gs[j], BotId)}}

\* a second human has joined the match of the client, which has not finished
PairedLive(sock) ==
    \E i \in 1..Len(games) :
      /\ HasPlayer(games[i], sock)
      /\ Len(games[i].players) = 2
      /\ ~HasPlayer(games[i], BotId)
      /\ games[i].status # "finished"

\* C19: once a second human has joined the match of a waiting client, the
\* bot spawn timer of that client attaches no bot: no step creates a match
\* that seats the client and a bot, on the webhook path or on the path of
\* attemptMatchOrEnqueue
C19_NoBotAfterPairing ==
    [][\A sock \in Sockets :
         PairedLive(sock) => BotGamesOf(games', sock) \subseteq BotGamesOf(games, sock)]_vars

\* no bot spawn timer is pending for a client that has left
SpawnTimersOfConnected ==
    \A t \in timers :
      t.kind \in {"botSpawn", "botSpawnQueue"} => t.socketId \in connected

\* a client that arrives is seated with participants that are connected
SeatedWithConnected ==
    \A sock \in Sockets :
      Arrives(sock) =>
        \A j \in NewSeats(sock) :
          \A i \in 1..Len(games'[j].players) :
            LET p == games'[j].players[i] IN
            p.isBot \/ p.socketId = sock \/ p.socketId \in connected

\* C20: after a client has disconnected while its match was waiting, its bot
\* spawn timer never fires and its one-slot match is not joinable: no client
\* arriving later is seated in a match whose other slot is the client that
\* left
C20_LeaverNotJoinable == [](SpawnTimersOfConnected) /\ [][SeatedWithConnected]_vars

(***************************************************************************)
(* Properties of the notifications and of the timers                       *)
(***************************************************************************)
\* the clients whose last notification is a matchFound
MatchFoundTo == {s \in DOMAIN notified : notified[s].event = "matchFound"}

\* C21: the matchFound payload a client gets has the same opponent type
\* whether the opponent seated in its match is a bot or a human, on every
\* path that pairs
C21_MatchFoundHidesBot ==
    \A s1 \in MatchFoundTo, s2 \in MatchFoundTo :
      notified[s1].automated /\ ~notified[s2].automated
        => notified[s1].opponentType = notified[s2].opponentType

\* C22: every delay a bot spawn timer is set with is at least 13000 ms and
\* less than 25000 ms, on the path of the webhook and on the path of
\* attemptMatchOrEnqueue
C22_SpawnDelayInWindow ==
    spawnDelay # NoDelay =>
      /\ ~LessBits(spawnDelay.delay, Fixed(13000))
      /\ LessBits(spawnDelay.delay, Fixed(25000))

\* the round of the match that is being played
RoundOf(g) == roundLog[g.id].round

C24_ShortAllowanceAfterDraw ==
    \A i \in 1..Len(games) :
      games[i].turnTimer /\ RoundOf(games[i]) > 1 =>
        games[i].turnDeadlineAt = TURN_MS

(***************************************************************************)
(* Properties of the end of a match and of its payout                      *)
(***************************************************************************)
\* the gameEnd announcements of the match
AnnouncedFor(log, gameId) == {e \in log : e.gameId = gameId}

\* C25: a match that is finished with a winner keeps its status, its
\* winner, its winning line and its board, and no other winner is announced
\* for it, whatever happens later (move requests, bot callbacks, timers,
\* disconnects, resignations, the payout sent or failed)
C25_FinishedIsFinal ==
    [][\A gameId \in GameIds(games) \cap GameIds(games') :
         LET g == GameAt(games, gameId)
             after == GameAt(games', gameId)
         IN  g.status = "finished" /\ AnnouncedFor(ended, gameId) # {} =>
               /\ after.status = "finished"
               /\ after.winner = g.winner
               /\ after.winLine = g.winLine
               /\ after.board = g.board
               /\ AnnouncedFor(ended', gameId) = AnnouncedFor(ended, gameId)]_vars

\* a callback of the bot has run on a match that its human had won and
\* whose payout had failed
C25_Witness ==
    \E gameId \in GameIds(games), i \in 1..Len(payouts) :
      /\ GameAt(games, gameId).status = "finished"
      /\ lastEvent = Event("botMove", gameId)
      /\ \E e \in AnnouncedFor(ended, gameId) :
           ~IsBot(GameAt(games, gameId), e.winnerId)
      /\ payouts[i].gameId = gameId
      /\ payouts[i].status = "failed"

\* C26: processPayout is called at most once for a match, so no attempt
\* follows one that failed
C26_OnePayoutPerMatch ==
    \A i \in 1..Len(payouts), j \in 1..Len(payouts) :
      payouts[i].gameId = payouts[j].gameId => i = j

\* the payout of a match has failed and the server has gone on
C26_Witness ==
    \E i \in 1..Len(payouts) :
      /\ payouts[i].status = "failed"
      /\ lastEvent.kind # "payout"

\* C27: the amount sent to a human winner is the entry of the payout table
\* for the bet of the match: 80 for 50, 500 for 300, 800 for 500, 1700 for
\* 1000, 8000 for 5000 and 17000 for 10000
C27_PayoutFromTable ==
    \A i \in 1..Len(payouts) :
      payouts[i].address # Null =>
        payouts[i].amount = TablePayout(payouts[i].betAmount)

(***************************************************************************)
(* Property of the matchmaking with its timers (SpecQueueFair)             *)
(***************************************************************************)
\* the payment of the client is confirmed and no matchFound has followed
AwaitsMatch(sock) ==
    /\ sock \in connected
    /\ sock \in DOMAIN notified
    /\ notified[sock] = PaymentVerified

\* the client is seated in a match of two that is playing
InPlay(sock) ==
    \E i \in 1..Len(games) :
      /\ HasPlayer(games[i], sock)
      /\ Len(games[i].players) = 2
      /\ games[i].status = "playing"

\* C28: a client that has paid and stays connected is eventually seated in
\* a match of two that is playing, with a second human of its bet or with
\* the bot its spawn timer brings
C28_PayerGetsMatch ==
    \A sock \in Sockets :
      AwaitsMatch(sock) ~> (InPlay(sock) \/ sock \notin connected)

(***************************************************************************)
(* Properties of the moves that end a round (Spec, SpecPolicy)             *)
(***************************************************************************)
\* the cells of the match that get their mark in this step
PlacedIn(gameId) ==
    {c \in Cells : /\ GameAt(games, gameId).board[c] = Null
                   /\ GameAt(games', gameId).board[c] # Null}

\* a move of the match is accepted in this step and completes a line of the
\* mark it places
LineCompleted(gameId) ==
    /\ gameId \in GameIds(games) \cap GameIds(games')
    /\ GameAt(games, gameId).status = "playing"
    /\ \E c \in Cells :
         /\ PlacedIn(gameId) = {c}
         /\ GameAt(games', gameId).board =
              [GameAt(games, gameId).board EXCEPT
                 ![c] = PlayerOf(GameAt(games, gameId), GameAt(games, gameId).turn).symbol]
         /\ HasLine(GameAt(games', gameId).board, GameAt(games', gameId).board[c])

Restarted(gameId) ==
    /\ gameId \in GameIds(games) \cap GameIds(games')
    /\ roundLog'[gameId].round = roundLog[gameId].round + 1

\* C30: the restart after a draw empties the 9 cells, sets the move counter
\* to 0 and the first-turn flag, leaves the match playing with the turn
\* timer pending for the new starter, and keeps the participants, their
\* marks, the bet and the verdict of the bot
C30_RestartFrame ==
    [][\A gameId \in 1..MaxGames :
         Restarted(gameId) =>
           LET g == GameAt(games, gameId)
               after == GameAt(games', gameId)
           IN  /\ after.board = EmptyBoard
               /\ after.moveCount = 0
               /\ after.isFirstTurn
               /\ after.status = "playing"
               /\ after.turnTimer
               /\ after.turn = after.startingPlayer
               /\ after.players = g.players
               /\ after.betAmount = g.betAmount
               /\ gameId \in DOMAIN activeBots =>
                    /\ gameId \in DOMAIN activeBots'
                    /\ activeBots'[gameId].shouldWin = activeBots[gameId].shouldWin]_vars

\* a match against a bot with a session in the round after a draw, before
\* the first mark of the round
C30_Witness ==
    \E gameId \in GameIds(games) \cap DOMAIN activeBots :
      /\ RoundOf(GameAt(games, gameId)) = 2
      /\ GameAt(games, gameId).board = EmptyBoard
      /\ GameAt(games, gameId).moveCount = 0
      /\ GameAt(games, gameId).status = "playing"

(***************************************************************************)
(* Properties of the timers of a match (Spec)                              *)
(***************************************************************************)
\* the turn timer of the match runs in this step and forfeits the match or
\* places a mark
TimerTakesEffect(gameId) ==
    /\ gameId \in GameIds(games) \cap GameIds(games')
    /\ lastEvent' = Event("turnTimer", gameId)
    /\ \/ GameAt(games', gameId).board # GameAt(games, gameId).board
       \/ GameAt(games', gameId).status # GameAt(games, gameId).status
       \/ ended' # ended

\* C31: a match has a pending turn timer only while it is playing and never
\* more than one, and a turn timer that forfeits the match or places a mark
\* was set for the turn being played (the same round and move count) in a
\* match that is playing
C31_TimerOfTheTurn ==
    [][/\ \A i \in 1..Len(games') :
            /\ games'[i].liveTimers <= 1
            /\ games'[i].turnTimer = (games'[i].liveTimers = 1)
            /\ games'[i].turnTimer => games'[i].status = "playing"
       /\ \A gameId \in 1..MaxGames :
            TimerTakesEffect(gameId) =>
              LET g == GameAt(games, gameId) IN
              /\ g.status = "playing"
              /\ g.turnTimer
              /\ g.armedFor = <<roundLog[gameId].round, g.moveCount>>]_vars

\* the turn timer has forfeited a match in which marks had been placed
C31_Witness ==
    \E gameId \in GameIds(games) :
      /\ lastEvent = Event("turnTimer", gameId)
      /\ GameAt(games, gameId).status = "finished"
      /\ GameAt(games, gameId).moveCount >= 2
      /\ GameAt(games, gameId).liveTimers = 0

(***************************************************************************)
(* Properties of the session of the bot in play (SpecPolicy, Spec)         *)
(***************************************************************************)
\* the session of the match must lose and has taken the branch of the silly
\* mistake: drawCount is raised only by a call on a board of 5 marks or more,
\* and the call that raises it to maxDrawsBeforeEnd returns makeSillyMistake
BlunderPlayed(gameId) ==
    /\ gameId \in DOMAIN activeBots
    /\ ~activeBots[gameId].shouldWin
    /\ activeBots[gameId].drawCount >= activeBots[gameId].maxDrawsBeforeEnd

\* the placements makeBotMove schedules for the match in this step
ScheduledFor(gameId) ==
    {t \in timers' \ timers : t.kind = "botMove" /\ t.gameId = gameId}

\* the cells that complete a line of a human of the match
HumanWinsAt(g) ==
    UNION {Completing(g.board, PlayerOf(g, h).symbol) : h \in Humans(g)}

SeatsBot(g) == \E i \in 1..Len(g.players) : g.players[i].isBot

\* C33: a match that seats a bot has a session in activeBots from the step
\* that seats the bot until it is finished, and once it is finished
\* activeBots holds no session for it
C33_SessionWhileInPlay ==
    \A i \in 1..Len(games) :
      SeatsBot(games[i]) =>
        (games[i].id \in DOMAIN activeBots) = (games[i].status # "finished")

(***************************************************************************)
(* Properties of the seats of a match (SpecRejoin, SpecStandoff, Spec)     *)
(***************************************************************************)
\* C34: a match that is ready, playing or finished has two slots, held by
\* two different participants, one with the mark X and one with the mark O,
\* and the turn is with one of the two, also when the payment of a client
\* has been confirmed more than once
C34_TwoSlotsTwoMarks ==
    \A i \in 1..Len(games) :
      games[i].status \in {"ready", "playing", "finished"} =>
        /\ Len(games[i].players) = 2
        /\ games[i].players[1].socketId # games[i].players[2].socketId
        /\ {games[i].players[1].symbol, games[i].players[2].symbol} = {"X", "O"}
        /\ HasPlayer(games[i], games[i].turn)

\* C35: in a match whose session must win, against a human who moves in
\* time, the rounds that ended in a draw never outnumber maxDrawsBeforeEnd of
\* the session
C35_DrawsWithinThreshold ==
    \A gameId \in DOMAIN activeBots \cap DOMAIN roundLog :
      activeBots[gameId].shouldWin =>
        roundLog[gameId].round - 1 <= activeBots[gameId].maxDrawsBeforeEnd

\* a cell of the match that was empty holds the mark of a human slot after
\* this step
HumanMarkPlaced(gameId) ==
    /\ gameId \in GameIds(games) \cap GameIds(games')
    /\ LET g == GameAt(games, gameId) IN
       \E c \in Cells, h \in Humans(g) :
         /\ g.board[c] = Null
         /\ GameAt(games', gameId).board[c] = PlayerOf(g, h).symbol

\* C36: a mark of a human slot is placed only by the handler of a makeMove
\* request: no callback of a timer (turn timer, countdown, delayed bot move,
\* the 500 ms timer of the bot's first move) places it
C36_HumanMarksByRequest ==
    [][\A gameId \in 1..MaxGames :
         HumanMarkPlaced(gameId) => lastEvent' = Event("makeMove", gameId)]_vars

\* the matches of the registry that are not finished and seat the client
LiveSeatsOf(sock) ==
    {i \in 1..Len(games) : HasPlayer(games[i], sock) /\ games[i].status # "finished"}

\* C37: a client is seated in at most one match of the registry that is not
\* finished, on the path of the webhook and on the path of
\* attemptMatchOrEnqueue, in whatever order joins, payment confirmations and
\* bot spawn timers come
C37_OneLiveSeat ==
    \A sock \in Sockets : Cardinality(LiveSeatsOf(sock)) <= 1

(***************************************************************************)
(* Properties of the resignation of a match (SpecPayout)                   *)
(***************************************************************************)

\* C38: a resign event changes a match only when its sender is one of the
\* two participants of the match, and the winner is then the other
\* participant; a resign that names a match its sender has no slot in
\* leaves the match as it is
C38_ResignByParticipant ==
    [][\A sock \in Sockets, gameId \in GameIds(games) :
         Resign(sock, gameId) /\ GameAt(games', gameId) # GameAt(games, gameId) =>
           /\ HasPlayer(GameAt(games, gameId), sock)
           /\ \A e \in AnnouncedFor(ended', gameId) :
                /\ e.winnerId # sock
                /\ HasPlayer(GameAt(games, gameId), e.winnerId)]_vars

(***************************************************************************)
(* Properties of a match that is playing (Spec)                            *)
(***************************************************************************)

\* C39: a match that is playing has its turn timer set for the turn being
\* played, by a participant that holds the turn, and its board has an empty
\* cell and no completed line, so that a playing match cannot stall
C39_PlayingCannotStall ==
    \A i \in 1..Len(games) :
      games[i].status = "playing" =>
        /\ games[i].turnTimer
        /\ games[i].liveTimers = 1
        /\ HasPlayer(games[i], games[i].turn)
        /\ games[i].id \in DOMAIN roundLog
        /\ games[i].armedFor = <<roundLog[games[i].id].round, games[i].moveCount>>
        /\ ~BoardFull(games[i].board)
        /\ checkWinner(games[i].board).winner = Null

\* the turn timer has run out on the bot, a mark was placed for it, and the
\* match is playing with the timer of the next turn set
C39_Witness ==
    \E i \in 1..Len(games) :
      /\ lastEvent = Event("turnTimer", games[i].id)
      /\ games[i].status = "playing"
      /\ games[i].turnTimer
      /\ games[i].moveCount >= 1
      /\ ~IsBot(games[i], games[i].turn)

(***************************************************************************)
(* Properties of the delayed placement of the bot (SpecPrompt)             *)
(***************************************************************************)

\* the callback t of makeBotMove runs and its move is accepted by the match
BotMoveApplied(t) ==
    /\ BotMoveFires(t)
    /\ t.gameId \in GameIds(games) \cap GameIds(games')
    /\ \/ GameAt(games', t.gameId).board # GameAt(games, t.gameId).board
       \/ GameAt(games', t.gameId).moveCount # GameAt(games, t.gameId).moveCount
       \/ GameAt(games', t.gameId).status # GameAt(games, t.gameId).status

\* C40: a move of the bot that is placed on the board was computed from the
\* board it is placed on: the callback makeBotMove scheduled never places its
\* move after the board has changed since the move was computed
C40_MoveFromTheBoard ==
    [][\A t \in timers :
         BotMoveApplied(t) => t.seen = GameAt(games, t.gameId).board]_vars
====
